---- MODULE Spec2Model ----
(***************************************************************************)
(* MediCare AI: a model of the dose lifecycle hook (useMedicineData), the  *)
(* inventory service, the Blynk telemetry client and the voice responder.  *)
(*                                                                         *)
(* Dates are minutes counted from midnight of the day the sample data is   *)
(* created.  Arrays are sequences; objects are records.  An optional field *)
(* that is absent holds NoDate (a Date) or NoNote (a string).              *)
(***************************************************************************)
EXTENDS Integers, Sequences, FiniteSets, TLC

VARIABLES
    \* useMedicineData (React state of the hook)
    medicines, schedules, refillOrders, loading,
    \* autoRefillIfNeeded calls that are awaiting the 1mg adapter
    refillsInFlight,
    \* the wall clock, the number of hook calls made
    now, ops,
    \* InventoryService applied to one medicine: the argument, the tier returned and
    \* the days returned (a sequence, empty until calculateDaysRemaining has returned)
    stockMedicine, stockLevel, daysRemaining,
    \* the autoRefillIfNeeded call on that medicine: where it is, the adapter calls it has
    \* made, what they returned, and its result (a sequence, empty until it has returned)
    stockRefill,
    \* BlynkService: the fields of the singleton
    isConnected, lastData, listeners,
    \* the polls whose fetchAllSensorData is awaiting its requests, the timer ticks fired
    pollsInFlight, ticks,
    \* the callbacks handed to subscribe so far, those whose cancellation handle has been
    \* invoked, the polls each callback was called with, and the callbacks that were called
    \* after their handle had been invoked
    subscribed, cancelled, received, calledAfterCancel,
    \* the polls whose snapshot was handed to notifyListeners, in that order
    published,
    \* BlynkService: the activity log, and the number of addActivity calls made
    activities, inserted,
    \* the dispensePill and sendNotification calls awaiting a request, the requests
    \* that failed, the reset timers of dispensePill that are pending
    callsInFlight, failures, resetTimers,
    \* what the dispensePill or sendNotification call that returned last has returned (a
    \* sequence, empty until a call has returned)
    returned,
    \* VoiceService: the fields of the singleton
    currentLanguage, voiceMedicines, voiceSchedules,
    \* VoiceAssistant: the last query (a sequence, empty until a query has been made),
    \* the runs of its effect, the queries made
    lastQuery, effects, asked,
    \* ShoppingCartDashboard: the React state, and what the last render has shown
    cartItems, cartLoading, orderStatus, searchResults, rendered,
    \* the searchMedicines, loadCriticalMedicines and placeOrder calls awaiting the 1mg
    \* adapter, the reset timers of placeOrder that are pending, the medicines that the
    \* effect of the cart has last run with (a sequence, empty until it has run)
    searchesInFlight, cartLoadsInFlight, cartOrdersInFlight, cartTimers, cartSeen,
    \* App.handleRefillOrder: the lines it has logged
    refillLogs,
    \* StockDashboard: orderingMedicine (a sequence, empty for null)
    orderingMedicine,
    \* Dashboard: the handleDispenseFromHardware call awaiting dispensePill (a sequence)
    hardwareDispense,
    \* EnhancedCaregiverDashboard: selectedTimeframe
    selectedTimeframe,
    \* the clicks handled
    uiOps

doseVars == <<medicines, schedules, refillOrders, loading, refillsInFlight, now, ops>>

stockVars == <<stockMedicine, stockLevel, daysRemaining, stockRefill>>

pollVars == <<isConnected, lastData, listeners, pollsInFlight, ticks,
              subscribed, cancelled, received, calledAfterCancel, published>>

activityVars == <<activities, inserted, callsInFlight, failures, resetTimers, returned>>

voiceVars == <<currentLanguage, voiceMedicines, voiceSchedules, lastQuery, effects, asked>>

cartVars == <<cartItems, cartLoading, orderStatus, searchResults, rendered,
              searchesInFlight, cartLoadsInFlight, cartOrdersInFlight, cartTimers, cartSeen>>

otherUiVars == <<refillLogs, orderingMedicine, hardwareDispense, selectedTimeframe, uiOps>>

uiVars == <<cartVars, otherUiVars>>

vars == <<doseVars, stockVars, pollVars, activityVars, voiceVars, uiVars>>

\* what an action of one part leaves alone
notDoseVars == <<stockVars, pollVars, activityVars, voiceVars, uiVars>>

notStockVars == <<doseVars, pollVars, activityVars, voiceVars, uiVars>>

notPollVars == <<doseVars, stockVars, activityVars, voiceVars, uiVars>>

notActivityVars == <<doseVars, stockVars, pollVars, voiceVars, uiVars>>

notVoiceVars == <<doseVars, stockVars, pollVars, activityVars, uiVars>>

notUiVars == <<doseVars, stockVars, pollVars, activityVars, voiceVars>>

----------------------------------------------------------------------------
\* Bounds of the model

\* hook calls (markDoseTaken, markTakenLate, skipDose, snoozeDose) in one run
MaxOps == 4

\* hook calls in a run on the data with a schedule of an unknown medicine
MaxOrphanOps == 3

\* hook calls in a run of dose completions only
MaxCompletions == 9

\* hook calls in a run that follows the refills to their end
MaxRefillOps == 3

\* clicks in a run of the shopping cart
MaxCartOps == 4

\* clicks, hook calls and polls in a run of the whole application
MaxAppOps == 2

\* the searches, loads and orders of the cart that are in flight at a time, its reset
\* timers that are pending, and the items whose buttons are clicked
MaxSearches == 1

MaxCartLoads == 1

MaxCartOrders == 1

MaxCartTimers == 2

MaxCartItems == 3

\* advances of the wall clock in one run
MaxTicks == 1

\* autoRefillIfNeeded calls awaiting the adapter at the same time
MaxRefillsInFlight == 1

\* refill orders placed or awaited in one run
MaxRefillOrders == 2

\* quantities and thresholds of the medicine handed to the InventoryService
MaxQuantity == 25

MaxThreshold == 10

MaxNegative == 2

\* doses a day of that medicine
MaxFrequency == 3

\* ticks of the polling timer in one run
MaxPolls == 2

\* sensor requests of one poll that do not return a value
MaxBadChannels == 1

\* entries added to the activity log in one run
MaxInsertions == 52

\* reset timers of dispensePill pending at the same time
MaxResetTimers == 1

\* of these, sendNotification calls
MaxNotifications == 1

\* calls awaiting a request at the same time
MaxCallsInFlight == 1

\* requests of these calls that fail in one run
MaxFailures == 1

\* runs of the effect of the VoiceAssistant, queries, midnights in one run
MaxEffects == 1

MaxQueries == 1

MaxDays == 1

\* the minute of the day at which the application is loaded (08:20)
StartMinute == 500

\* minutes the wall clock advances in one step: more than the 30 minutes of a snooze
TickMinutes == 35

----------------------------------------------------------------------------
\* Values

NoDate == -1

NoNote == "undefined"

Statuses == {"pending", "taken", "missed", "snoozed", "taken_late"}

\* schedule ids a caller may pass: the four of the sample data and one that matches nothing
ScheduleIds == {"1", "2", "3", "4", "9"}

\* reasons a caller may pass to skipDose (NoNote: the argument is omitted)
Reasons == {NoNote, "felt sick"}

Max(a, b) == IF a >= b THEN a ELSE b

Min(a, b) == IF a <= b THEN a ELSE b

\* Array.prototype.find, as the index of the first element with that id (0: undefined)
FindById(arr, id) ==
    LET hits == {i \in 1..Len(arr) : arr[i].id = id}
    IN  IF hits = {} THEN 0 ELSE CHOOSE i \in hits : \A j \in hits : i <= j

sampleMedicines ==
    << [id |-> "1", name |-> "Metformin 500mg", frequency |-> 2, totalQuantity |-> 60,
        remainingQuantity |-> 8, criticalThreshold |-> 10],
       [id |-> "2", name |-> "Lisinopril 10mg", frequency |-> 1, totalQuantity |-> 30,
        remainingQuantity |-> 4, criticalThreshold |-> 5],
       [id |-> "3", name |-> "Vitamin D3 1000IU", frequency |-> 1, totalQuantity |-> 100,
        remainingQuantity |-> 15, criticalThreshold |-> 15] >>

sampleSchedules ==
    << [id |-> "1", medicineId |-> "1", scheduledTime |-> 480, taken |-> TRUE,
        takenAt |-> 495, skipped |-> FALSE, status |-> "taken",
        snoozeUntil |-> NoDate, notes |-> NoNote],
       [id |-> "2", medicineId |-> "1", scheduledTime |-> 1200, taken |-> FALSE,
        takenAt |-> NoDate, skipped |-> FALSE, status |-> "pending",
        snoozeUntil |-> NoDate, notes |-> NoNote],
       [id |-> "3", medicineId |-> "2", scheduledTime |-> 540, taken |-> FALSE,
        takenAt |-> NoDate, skipped |-> FALSE, status |-> "pending",
        snoozeUntil |-> NoDate, notes |-> NoNote],
       [id |-> "4", medicineId |-> "3", scheduledTime |-> 600, taken |-> FALSE,
        takenAt |-> NoDate, skipped |-> FALSE, status |-> "pending",
        snoozeUntil |-> NoDate, notes |-> NoNote] >>

----------------------------------------------------------------------------
\* InventoryService

\* mutant: a medicine exactly at its threshold is not critical
checkStockLevel_StrictCritical(medicine) ==
    IF medicine.remainingQuantity < medicine.criticalThreshold THEN "critical"
    ELSE IF medicine.remainingQuantity <= medicine.criticalThreshold * 2 THEN "low"
    ELSE "adequate"

checkStockLevel(medicine) ==
    IF medicine.remainingQuantity <= medicine.criticalThreshold THEN "critical"
    ELSE IF medicine.remainingQuantity <= medicine.criticalThreshold * 2 THEN "low"
    ELSE "adequate"

\* Math.floor(a / b) for b # 0: the greatest integer q with q <= a / b
MathFloorDiv(a, b) ==
    LET bound == (IF a >= 0 THEN a ELSE -a) + 1
    IN  CHOOSE q \in -bound..bound :
            IF b > 0 THEN q * b <= a /\ a < (q + 1) * b
                     ELSE q * b >= a /\ a > (q + 1) * b

\* mutant: the quotient is rounded up
calculateDaysRemaining_RoundsUp(medicine) ==
    IF medicine.frequency = 0 THEN 0
    ELSE -MathFloorDiv(-medicine.remainingQuantity, medicine.frequency)

calculateDaysRemaining(medicine) ==
    IF medicine.frequency = 0 THEN 0
    ELSE MathFloorDiv(medicine.remainingQuantity, medicine.frequency)

\* mutant: the floor is applied to the old quantity, not to the new one
updateStock_FloorBeforeDecrement(medicineId, meds, taken) ==
    [i \in 1..Len(meds) |->
        IF meds[i].id = medicineId /\ taken
        THEN [meds[i] EXCEPT !.remainingQuantity = Max(0, meds[i].remainingQuantity) - 1]
        ELSE meds[i]]

\* mutant: the decrement is not floored at 0
updateStock_NoFloor(medicineId, meds, taken) ==
    [i \in 1..Len(meds) |->
        IF meds[i].id = medicineId /\ taken
        THEN [meds[i] EXCEPT !.remainingQuantity = meds[i].remainingQuantity - 1]
        ELSE meds[i]]

updateStock(medicineId, meds, taken) ==
    [i \in 1..Len(meds) |->
        IF meds[i].id = medicineId /\ taken
        THEN [meds[i] EXCEPT !.remainingQuantity = Max(0, meds[i].remainingQuantity - 1)]
        ELSE meds[i]]

\* mutant: a stock equal to the threshold is not refilled
autoRefillIfNeeded_BelowThresholdOnly(medicine) ==
    IF medicine.remainingQuantity < medicine.criticalThreshold
    THEN << [medicine |-> medicine, stage |-> "checkAvailability"] >>
    ELSE << >>

\* mutant: a low stock is refilled too
autoRefillIfNeeded_AlsoWhenLow(medicine) ==
    IF checkStockLevel(medicine) # "adequate"
    THEN << [medicine |-> medicine, stage |-> "checkAvailability"] >>
    ELSE << >>

\* autoRefillIfNeeded up to its first await: the refill that is then awaiting
\* checkAvailability, or none when the medicine is not at critical level
autoRefillIfNeeded(medicine) ==
    IF checkStockLevel(medicine) = "critical"
    THEN << [medicine |-> medicine, stage |-> "checkAvailability"] >>
    ELSE << >>

----------------------------------------------------------------------------
\* Date arithmetic of snoozeDose

getMinutes(date) == date % 60

\* mutant: the minute field wraps and the hour stays
setMinutes_NoCarry(date, minutes) == (date - getMinutes(date)) + (minutes % 60)

\* Date.prototype.setMinutes: the minute field is replaced, an overflow carries into the hour
setMinutes(date, minutes) == (date - getMinutes(date)) + minutes

----------------------------------------------------------------------------
\* useMedicineData

\* the updater of markDoseTaken and markTakenLate
CompleteSchedule(prev, scheduleId, at, status) ==
    [i \in 1..Len(prev) |->
        IF prev[i].id = scheduleId
        THEN [prev[i] EXCEPT !.taken = TRUE, !.takenAt = at, !.status = status]
        ELSE prev[i]]

\* mutant: the reason is dropped
SkipSchedule_NoNotes(prev, scheduleId, reason) ==
    [i \in 1..Len(prev) |->
        IF prev[i].id = scheduleId
        THEN [prev[i] EXCEPT !.skipped = TRUE, !.status = "missed"]
        ELSE prev[i]]

\* the updater of skipDose
SkipSchedule(prev, scheduleId, reason) ==
    [i \in 1..Len(prev) |->
        IF prev[i].id = scheduleId
        THEN [prev[i] EXCEPT !.skipped = TRUE, !.status = "missed", !.notes = reason]
        ELSE prev[i]]

\* the updater of snoozeDose
SnoozeSchedule(prev, scheduleId, snoozeUntil) ==
    [i \in 1..Len(prev) |->
        IF prev[i].id = scheduleId
        THEN [prev[i] EXCEPT !.status = "snoozed", !.snoozeUntil = snoozeUntil]
        ELSE prev[i]]

----------------------------------------------------------------------------
\* InventoryService on one medicine

NoResult == "none"

StockIds == {"1", "2"}

StockTotals == {30, 60}

\* the result of autoRefillIfNeeded is a sequence: empty for null, else the order
Null == << >>

NoRefillCall == [stage |-> "none", adapterCalls |-> << >>, settled |-> << >>, result |-> << >>]

\* no call has been made and none is made
StockIdle ==
    /\ stockMedicine = [id |-> "1", remainingQuantity |-> 0, criticalThreshold |-> 0,
                        frequency |-> 0, totalQuantity |-> 0]
    /\ stockLevel = NoResult
    /\ daysRemaining = << >>
    /\ stockRefill = NoRefillCall

StockInit ==
    /\ stockMedicine \in [id : StockIds,
                          remainingQuantity : -MaxNegative..MaxQuantity,
                          criticalThreshold : -MaxNegative..MaxThreshold,
                          frequency : 0..MaxFrequency,
                          totalQuantity : StockTotals]
    /\ stockLevel = NoResult
    /\ daysRemaining = << >>
    /\ stockRefill = NoRefillCall

CheckStockLevel ==
    /\ stockLevel' = checkStockLevel(stockMedicine)
    /\ UNCHANGED <<stockMedicine, daysRemaining, stockRefill>>
    /\ UNCHANGED notStockVars

CalculateDaysRemaining ==
    /\ daysRemaining' = <<calculateDaysRemaining(stockMedicine)>>
    /\ UNCHANGED <<stockMedicine, stockLevel, stockRefill>>
    /\ UNCHANGED notStockVars

\* autoRefillIfNeeded(stockMedicine) up to its first await, or to its return of null
AutoRefillIfNeeded ==
    /\ stockRefill.stage = "none"
    /\ LET started == autoRefillIfNeeded(stockMedicine)
       IN  stockRefill' =
                IF started = << >>
                THEN [stockRefill EXCEPT !.stage = "returned", !.result = <<Null>>]
                ELSE [stockRefill EXCEPT !.stage = started[1].stage,
                                         !.adapterCalls = <<"checkAvailability">>]
    /\ UNCHANGED <<stockMedicine, stockLevel, daysRemaining>>
    /\ UNCHANGED notStockVars

\* checkAvailability resolves: placeOrder is called, or null is returned
CheckAvailabilityReturned(available) ==
    /\ stockRefill.stage = "checkAvailability"
    /\ stockRefill' =
            IF available
            THEN [stockRefill EXCEPT !.stage = "placeOrder",
                                     !.adapterCalls = Append(@, "placeOrder"),
                                     !.settled = Append(@, "available")]
            ELSE [stockRefill EXCEPT !.stage = "returned",
                                     !.settled = Append(@, "unavailable"),
                                     !.result = <<Null>>]
    /\ UNCHANGED <<stockMedicine, stockLevel, daysRemaining>>
    /\ UNCHANGED notStockVars

\* placeOrder resolves with its response and the order is returned, or it rejects and
\* the catch of autoRefillIfNeeded logs the error and null is returned
PlaceOrderSettled(ok) ==
    /\ stockRefill.stage = "placeOrder"
    /\ stockRefill' =
            IF ok
            THEN [stockRefill EXCEPT !.stage = "returned",
                                     !.settled = Append(@, "confirmed"),
                                     !.result = << <<[medicineId |-> stockMedicine.id,
                                                     quantity |-> stockMedicine.totalQuantity,
                                                     status |-> "confirmed"]>> >>]
            ELSE [stockRefill EXCEPT !.stage = "returned",
                                     !.settled = Append(@, "rejected"),
                                     !.result = <<Null>>]
    /\ UNCHANGED <<stockMedicine, stockLevel, daysRemaining>>
    /\ UNCHANGED notStockVars

StockNext ==
    \/ CheckStockLevel
    \/ CalculateDaysRemaining
    \/ AutoRefillIfNeeded
    \/ \E available \in BOOLEAN : CheckAvailabilityReturned(available)
    \/ \E ok \in BOOLEAN : PlaceOrderSettled(ok)

DoseInit ==
    /\ medicines = << >>
    /\ schedules = << >>
    /\ refillOrders = << >>
    /\ loading = TRUE
    /\ refillsInFlight = << >>
    /\ now = StartMinute
    /\ ops = 0

\* the effect that loads the sample data after the first render
LoadSampleData ==
    /\ loading
    /\ medicines' = sampleMedicines
    /\ schedules' = sampleSchedules
    /\ loading' = FALSE
    /\ UNCHANGED <<refillOrders, refillsInFlight, now, ops>>
    /\ UNCHANGED notDoseVars

\* markDoseTaken as the callback of a render whose state was (cSchedules, cMedicines):
\* the state it leaves when it reaches the await of autoRefillIfNeeded
\* mutant: an id that matches no schedule falls back to the first schedule
markDoseTaken_FirstWhenMissing(scheduleId, cSchedules, cMedicines) ==
    LET found == FindById(cSchedules, scheduleId)
        k == IF found = 0 /\ cSchedules # << >> THEN 1 ELSE found
    IN  IF k = 0
        THEN [schedules |-> schedules, medicines |-> medicines, refillsInFlight |-> refillsInFlight]
        ELSE LET schedule == cSchedules[k]
                 m == FindById(cMedicines, schedule.medicineId)
             IN  [schedules |-> CompleteSchedule(schedules, schedule.id, now, "taken"),
                  medicines |-> updateStock(schedule.medicineId, medicines, TRUE),
                  refillsInFlight |->
                        IF m = 0 THEN refillsInFlight
                        ELSE refillsInFlight \o autoRefillIfNeeded(cMedicines[m])]

markDoseTaken(scheduleId, cSchedules, cMedicines) ==
    LET k == FindById(cSchedules, scheduleId)
    IN  IF k = 0
        THEN [schedules |-> schedules, medicines |-> medicines, refillsInFlight |-> refillsInFlight]
        ELSE LET schedule == cSchedules[k]
                 m == FindById(cMedicines, schedule.medicineId)
             IN  [schedules |-> CompleteSchedule(schedules, scheduleId, now, "taken"),
                  medicines |-> updateStock(schedule.medicineId, medicines, TRUE),
                  refillsInFlight |->
                        IF m = 0 THEN refillsInFlight
                        ELSE refillsInFlight \o autoRefillIfNeeded(cMedicines[m])]

\* markTakenLate as the callback of a render whose schedules were cSchedules
markTakenLate(scheduleId, cSchedules) ==
    LET k == FindById(cSchedules, scheduleId)
    IN  [schedules |-> CompleteSchedule(schedules, scheduleId, now, "taken_late"),
         medicines |-> IF k = 0 THEN medicines
                       ELSE updateStock(cSchedules[k].medicineId, medicines, TRUE),
         refillsInFlight |-> refillsInFlight]

skipDose(scheduleId, reason) == SkipSchedule(schedules, scheduleId, reason)

snoozeDose(scheduleId) ==
    LET snoozeUntil == setMinutes(now, getMinutes(now) + 30)
    IN  SnoozeSchedule(schedules, scheduleId, snoozeUntil)

\* a click on a button of the current render: the callback closes over the current state
MarkDoseTaken(scheduleId) ==
    /\ UNCHANGED notDoseVars
    /\ LET r == markDoseTaken(scheduleId, schedules, medicines)
       IN  /\ schedules' = r.schedules
           /\ medicines' = r.medicines
           /\ refillsInFlight' = r.refillsInFlight
           /\ ops' = ops + 1
           /\ UNCHANGED <<refillOrders, loading, now>>

MarkTakenLate(scheduleId) ==
    /\ UNCHANGED notDoseVars
    /\ LET r == markTakenLate(scheduleId, schedules)
       IN  /\ schedules' = r.schedules
           /\ medicines' = r.medicines
           /\ refillsInFlight' = r.refillsInFlight
           /\ ops' = ops + 1
           /\ UNCHANGED <<refillOrders, loading, now>>

SkipDose(scheduleId, reason) ==
    /\ schedules' = skipDose(scheduleId, reason)
    /\ ops' = ops + 1
    /\ UNCHANGED <<medicines, refillOrders, loading, refillsInFlight, now>>
    /\ UNCHANGED notDoseVars

SnoozeDose(scheduleId) ==
    /\ schedules' = snoozeDose(scheduleId)
    /\ ops' = ops + 1
    /\ UNCHANGED <<medicines, refillOrders, loading, refillsInFlight, now>>
    /\ UNCHANGED notDoseVars

RemoveAt(seq, i) == SubSeq(seq, 1, i - 1) \o SubSeq(seq, i + 1, Len(seq))

\* checkAvailability resolves (Math.random() > 0.1): the refill goes on to placeOrder,
\* or autoRefillIfNeeded returns null
AvailabilityChecked(i, available) ==
    /\ i \in 1..Len(refillsInFlight)
    /\ refillsInFlight[i].stage = "checkAvailability"
    /\ refillsInFlight' =
            IF available THEN [refillsInFlight EXCEPT ![i].stage = "placeOrder"]
            ELSE RemoveAt(refillsInFlight, i)
    /\ UNCHANGED <<medicines, schedules, refillOrders, loading, now, ops>>
    /\ UNCHANGED notDoseVars

\* mutant: the new order is put first
OrderPlaced_Prepends(i) ==
    /\ i \in 1..Len(refillsInFlight)
    /\ refillsInFlight[i].stage = "placeOrder"
    /\ refillOrders' = <<[medicineId |-> refillsInFlight[i].medicine.id,
                          quantity |-> refillsInFlight[i].medicine.totalQuantity,
                          orderDate |-> now,
                          status |-> "confirmed"]>> \o refillOrders
    /\ refillsInFlight' = RemoveAt(refillsInFlight, i)
    /\ UNCHANGED <<medicines, schedules, loading, now, ops>>
    /\ UNCHANGED notDoseVars

\* placeOrder resolves: autoRefillIfNeeded returns the order, markDoseTaken appends it
OrderPlaced(i) ==
    /\ i \in 1..Len(refillsInFlight)
    /\ refillsInFlight[i].stage = "placeOrder"
    /\ refillOrders' = Append(refillOrders,
            [medicineId |-> refillsInFlight[i].medicine.id,
             quantity |-> refillsInFlight[i].medicine.totalQuantity,
             orderDate |-> now,
             status |-> "confirmed"])
    /\ refillsInFlight' = RemoveAt(refillsInFlight, i)
    /\ UNCHANGED <<medicines, schedules, loading, now, ops>>
    /\ UNCHANGED notDoseVars

\* mutant: a snooze that has run out makes the schedule pending again
Tick_ExpiresSnooze ==
    /\ now < StartMinute + MaxTicks * TickMinutes
    /\ now' = now + TickMinutes
    /\ schedules' = [k \in 1..Len(schedules) |->
            IF schedules[k].status = "snoozed" /\ schedules[k].snoozeUntil <= now'
            THEN [schedules[k] EXCEPT !.status = "pending"]
            ELSE schedules[k]]
    /\ UNCHANGED <<medicines, refillOrders, loading, refillsInFlight, ops>>
    /\ UNCHANGED notDoseVars

Tick ==
    /\ now < StartMinute + MaxTicks * TickMinutes
    /\ now' = now + TickMinutes
    /\ UNCHANGED <<medicines, schedules, refillOrders, loading, refillsInFlight, ops>>
    /\ UNCHANGED notDoseVars

\* markDoseTaken may start one more refill within the bounds
RefillRoom ==
    /\ Len(refillsInFlight) < MaxRefillsInFlight
    /\ Len(refillsInFlight) + Len(refillOrders) < MaxRefillOrders

RefillNext ==
    \/ \E i \in 1..MaxRefillsInFlight, available \in BOOLEAN : AvailabilityChecked(i, available)
    \/ \E i \in 1..MaxRefillsInFlight : OrderPlaced(i)

\* every operation of the hook, MaxOps calls in a run
DoseNext ==
    \/ LoadSampleData
    \/ ops < MaxOps /\ RefillRoom /\ \E id \in ScheduleIds : MarkDoseTaken(id)
    \/ ops < MaxOps /\ \E id \in ScheduleIds : MarkTakenLate(id)
    \/ ops < MaxOps /\ \E id \in ScheduleIds, reason \in Reasons : SkipDose(id, reason)
    \/ ops < MaxOps /\ \E id \in ScheduleIds : SnoozeDose(id)
    \/ RefillNext
    \/ Tick

\* dose completions only, MaxCompletions calls in a run: long enough to use up a stock
CompletionNext ==
    \/ LoadSampleData
    \/ ops < MaxCompletions /\ RefillRoom /\ \E id \in ScheduleIds : MarkDoseTaken(id)
    \/ ops < MaxCompletions /\ \E id \in ScheduleIds : MarkTakenLate(id)
    \/ RefillNext

\* the calls that start or complete a dose and the refills they start
RefillFlowNext ==
    \/ LoadSampleData
    \/ ops < MaxRefillOps /\ RefillRoom /\ \E id \in ScheduleIds : MarkDoseTaken(id)
    \/ ops < MaxRefillOps /\ \E id \in ScheduleIds : MarkTakenLate(id)
    \/ ops < MaxRefillOps /\ \E id \in ScheduleIds, reason \in Reasons : SkipDose(id, reason)
    \/ RefillNext
    \/ Tick

----------------------------------------------------------------------------
\* The handlers on data with a schedule whose medicineId matches no medicine.  The
\* sample data holds no such schedule; it is an input of the handlers here.

OrphanSchedule ==
    [id |-> "5", medicineId |-> "9", scheduledTime |-> 720, taken |-> FALSE,
     takenAt |-> NoDate, skipped |-> FALSE, status |-> "pending",
     snoozeUntil |-> NoDate, notes |-> NoNote]

\* a schedule of Metformin, the schedule of no medicine, an id of no schedule
OrphanScheduleIds == {"2", "5", "9"}

OrphanInit ==
    /\ medicines = sampleMedicines
    /\ schedules = sampleSchedules \o <<OrphanSchedule>>
    /\ refillOrders = << >>
    /\ loading = FALSE
    /\ refillsInFlight = << >>
    /\ now = StartMinute
    /\ ops = 0

OrphanNext ==
    \/ ops < MaxOrphanOps /\ RefillRoom /\ \E id \in OrphanScheduleIds : MarkDoseTaken(id)
    \/ ops < MaxOrphanOps /\ \E id \in OrphanScheduleIds : MarkTakenLate(id)
    \/ ops < MaxOrphanOps /\ \E id \in OrphanScheduleIds, reason \in Reasons : SkipDose(id, reason)
    \/ ops < MaxOrphanOps /\ \E id \in OrphanScheduleIds : SnoozeDose(id)
    \/ RefillNext

----------------------------------------------------------------------------
\* BlynkService: polling and subscription

\* the virtual pins read by one poll
Channels == {"V0", "V1", "V2", "V3", "V4", "V5", "V6"}

\* what one sensor request does: it returns a value, it fails (a network error or a
\* status that is not ok), or it returns a null body
Responses ==
    UNION { { [ch \in Channels |-> IF ch \in bad THEN kinds[ch] ELSE "value"] :
                kinds \in [bad -> {"fails", "null"}] } :
            bad \in {b \in SUBSET Channels : Cardinality(b) <= MaxBadChannels} }

\* the callbacks that clients hand to subscribe, each a closure of its own
Callbacks == {"a", "b", "c"}

None == "none"

\* fetchAllSensorData of poll p: each failed request is replaced by a substitute value
\* in its own catch, so Promise.all resolves; reading [0] of a null body throws, and the
\* outer catch returns the offline data
fetchAllSensorData(p, resp) ==
    IF \E ch \in Channels : resp[ch] = "null"
    THEN [poll |-> p, connected |-> FALSE, substituted |-> Channels]
    ELSE [poll |-> p, connected |-> TRUE,
          substituted |-> {ch \in Channels : resp[ch] = "fails"}]

\* Array.prototype.filter(listener => listener !== callback)
Without(arr, callback) == SelectSeq(arr, LAMBDA listener : listener # callback)

\* the cancellation handle that subscribe returned for callback
unsubscribe(callback, st) ==
    [st EXCEPT !.listeners = Without(st.listeners, callback),
               !.cancelled = st.cancelled \cup {callback}]

\* a listener is called with the data of poll p
deliver(callback, p, st) ==
    [st EXCEPT !.received[callback] = Append(st.received[callback], p),
               !.calledAfterCancel =
                    IF callback \in st.cancelled THEN st.calledAfterCancel \cup {callback}
                    ELSE st.calledAfterCancel]

\* notifyListeners: forEach over the array that this.listeners held when the round began,
\* from position i on.  The listener at position j invokes the handle of plan[j] (None:
\* no handle), which replaces this.listeners by a filtered copy.
RECURSIVE notifyListeners(_, _, _, _, _)
notifyListeners(arr, i, p, plan, st) ==
    IF i > Len(arr) THEN st
    ELSE LET called == deliver(arr[i], p, st)
             after == IF plan[i] = None THEN called ELSE unsubscribe(plan[i], called)
         IN  notifyListeners(arr, i + 1, p, plan, after)

ClientState ==
    [listeners |-> listeners, cancelled |-> cancelled, received |-> received,
     calledAfterCancel |-> calledAfterCancel]

PollInit ==
    /\ isConnected = FALSE
    /\ lastData = << >>
    /\ listeners = << >>
    /\ pollsInFlight = {}
    /\ ticks = 0
    /\ subscribed = {}
    /\ cancelled = {}
    /\ received = [c \in Callbacks |-> << >>]
    /\ calledAfterCancel = {}
    /\ published = << >>

\* the setInterval timer fires: the poll starts its requests
PollTick ==
    /\ ticks < MaxPolls
    /\ ticks' = ticks + 1
    /\ pollsInFlight' = pollsInFlight \cup {ticks + 1}
    /\ UNCHANGED <<isConnected, lastData, listeners, subscribed, cancelled, received,
                   calledAfterCancel, published>>
    /\ UNCHANGED notPollVars

\* the requests of poll p have settled: the snapshot is cached and published
PollSettled(p, resp, plan) ==
    /\ p \in pollsInFlight
    /\ LET data == fetchAllSensorData(p, resp)
           st == notifyListeners(listeners, 1, p, plan, ClientState)
       IN  /\ isConnected' = data.connected
           /\ lastData' = <<data>>
           /\ listeners' = st.listeners
           /\ cancelled' = st.cancelled
           /\ received' = st.received
           /\ calledAfterCancel' = st.calledAfterCancel
    /\ published' = Append(published, p)
    /\ pollsInFlight' = pollsInFlight \ {p}
    /\ UNCHANGED <<ticks, subscribed>>
    /\ UNCHANGED notPollVars

\* mutant: the cached data is not handed to the new callback
Subscribe_NoCachedData(callback) ==
    /\ callback \notin subscribed
    /\ subscribed' = subscribed \cup {callback}
    /\ listeners' = Append(listeners, callback)
    /\ UNCHANGED <<isConnected, lastData, pollsInFlight, ticks, cancelled, calledAfterCancel,
                   published, received>>
    /\ UNCHANGED notPollVars

\* subscribe(callback): the callback is called at once with the cached data, if any
Subscribe(callback) ==
    /\ callback \notin subscribed
    /\ subscribed' = subscribed \cup {callback}
    /\ listeners' = Append(listeners, callback)
    /\ received' = IF lastData # << >>
                   THEN [received EXCEPT ![callback] = Append(received[callback], lastData[1].poll)]
                   ELSE received
    /\ UNCHANGED <<isConnected, lastData, pollsInFlight, ticks, cancelled, calledAfterCancel,
                   published>>
    /\ UNCHANGED notPollVars

\* a client invokes the handle of callback, outside any notification (an unmount)
Unsubscribe(callback) ==
    /\ callback \in subscribed
    /\ LET st == unsubscribe(callback, ClientState)
       IN  /\ listeners' = st.listeners
           /\ cancelled' = st.cancelled
    /\ UNCHANGED <<isConnected, lastData, pollsInFlight, ticks, subscribed, received,
                   calledAfterCancel, published>>
    /\ UNCHANGED notPollVars

\* what the listeners of a round may do: each invokes the handle of a listener of the
\* round, or none
Plans == [1..Len(listeners) -> {listeners[i] : i \in 1..Len(listeners)} \cup {None}]

PollNext ==
    \/ PollTick
    \/ \E p \in 1..MaxPolls, resp \in Responses, plan \in Plans : PollSettled(p, resp, plan)
    \/ \E callback \in Callbacks : Subscribe(callback)
    \/ \E callback \in Callbacks : Unsubscribe(callback)

----------------------------------------------------------------------------
\* BlynkService: dispensePill, sendNotification and the activity log

\* the log keeps this many entries
MaxActivities == 50

NotificationTypes == {"reminder", "alert", "success"}

MedicineArgs == {"test-medicine"}

\* Array.prototype.slice(0, n)
Slice0(arr, n) == SubSeq(arr, 1, Min(n, Len(arr)))

\* mutant: the log is not cut
addActivity_NoLimit(log, activity) == <<activity>> \o log

\* addActivity: unshift, then keep the first 50
addActivity(log, activity) ==
    LET unshifted == <<activity>> \o log
    IN  IF Len(unshifted) > MaxActivities THEN Slice0(unshifted, MaxActivities)
        ELSE unshifted

\* the entry that the n-th addActivity call adds
Activity(n, type, about, success) ==
    [n |-> n, type |-> type, about |-> about, success |-> success]

ActivityInit ==
    /\ activities = << >>
    /\ inserted = 0
    /\ callsInFlight = << >>
    /\ failures = 0
    /\ resetTimers = 0
    /\ returned = << >>

\* dispensePill(medicineId) up to its first await: the trigger request is sent
DispensePill(medicineId) ==
    /\ callsInFlight' = Append(callsInFlight,
            [call |-> "dispensePill", stage |-> "trigger", arg |-> medicineId])
    /\ UNCHANGED <<activities, inserted, failures, resetTimers, returned>>
    /\ UNCHANGED notActivityVars

\* sendNotification(type, message) up to its await: the notification request is sent
SendNotification(type) ==
    /\ callsInFlight' = Append(callsInFlight,
            [call |-> "sendNotification", stage |-> "notify", arg |-> type])
    /\ UNCHANGED <<activities, inserted, failures, resetTimers, returned>>
    /\ UNCHANGED notActivityVars

\* the value that a call returns
Returned(c, value) == <<[call |-> c.call, arg |-> c.arg, value |-> value]>>

\* mutant: the catch of dispensePill sets the reset timer too
RequestSettled_ResetAfterFailure(i, ok) ==
    /\ i \in 1..Len(callsInFlight)
    /\ failures' = IF ok THEN failures ELSE failures + 1
    /\ LET c == callsInFlight[i]
       IN  IF c.call = "dispensePill" /\ c.stage = "trigger" /\ ok
           THEN /\ callsInFlight' = [callsInFlight EXCEPT ![i].stage = "log"]
                /\ UNCHANGED <<activities, inserted, resetTimers, returned>>
           ELSE IF c.call = "dispensePill"
           THEN /\ activities' = addActivity(activities,
                        Activity(inserted + 1, "dispense", c.arg, ok))
                /\ inserted' = inserted + 1
                /\ resetTimers' = Min(resetTimers + 1, 1)
                /\ callsInFlight' = RemoveAt(callsInFlight, i)
                /\ returned' = Returned(c, ok)
           ELSE IF ok
           THEN /\ activities' = addActivity(activities,
                        Activity(inserted + 1, "notification", c.arg, TRUE))
                /\ inserted' = inserted + 1
                /\ callsInFlight' = RemoveAt(callsInFlight, i)
                /\ returned' = Returned(c, TRUE)
                /\ UNCHANGED resetTimers
           ELSE /\ callsInFlight' = RemoveAt(callsInFlight, i)
                /\ returned' = Returned(c, FALSE)
                /\ UNCHANGED <<activities, inserted, resetTimers>>
    /\ UNCHANGED notActivityVars

\* the request that call i awaits settles (ok: makeRequest returns; otherwise it throws)
RequestSettled(i, ok) ==
    /\ i \in 1..Len(callsInFlight)
    /\ failures' = IF ok THEN failures ELSE failures + 1
    /\ LET c == callsInFlight[i]
       IN  IF c.call = "dispensePill" /\ c.stage = "trigger" /\ ok
           THEN \* the trigger is set: the log request is sent
                /\ callsInFlight' = [callsInFlight EXCEPT ![i].stage = "log"]
                /\ UNCHANGED <<activities, inserted, resetTimers, returned>>
           ELSE IF c.call = "dispensePill" /\ ok
           THEN \* both requests returned: the activity, the reset timer, return true
                /\ activities' = addActivity(activities,
                        Activity(inserted + 1, "dispense", c.arg, TRUE))
                /\ inserted' = inserted + 1
                /\ resetTimers' = resetTimers + 1
                /\ callsInFlight' = RemoveAt(callsInFlight, i)
                /\ returned' = Returned(c, TRUE)
           ELSE IF c.call = "dispensePill"
           THEN \* the catch: the failure activity, return false
                /\ activities' = addActivity(activities,
                        Activity(inserted + 1, "dispense", c.arg, FALSE))
                /\ inserted' = inserted + 1
                /\ callsInFlight' = RemoveAt(callsInFlight, i)
                /\ returned' = Returned(c, FALSE)
                /\ UNCHANGED resetTimers
           ELSE IF ok
           THEN \* sendNotification: the activity, return true
                /\ activities' = addActivity(activities,
                        Activity(inserted + 1, "notification", c.arg, TRUE))
                /\ inserted' = inserted + 1
                /\ callsInFlight' = RemoveAt(callsInFlight, i)
                /\ returned' = Returned(c, TRUE)
                /\ UNCHANGED resetTimers
           ELSE \* sendNotification: the catch logs to the console, return false
                /\ callsInFlight' = RemoveAt(callsInFlight, i)
                /\ returned' = Returned(c, FALSE)
                /\ UNCHANGED <<activities, inserted, resetTimers>>
    /\ UNCHANGED notActivityVars

\* the timer that dispensePill set fires and its reset request settles; a failure is
\* logged to the console
ResetTrigger(ok) ==
    /\ resetTimers > 0
    /\ resetTimers' = resetTimers - 1
    /\ failures' = IF ok THEN failures ELSE failures + 1
    /\ UNCHANGED <<activities, inserted, callsInFlight, returned>>
    /\ UNCHANGED notActivityVars

NotificationsSent ==
    Cardinality({i \in 1..Len(activities) : activities[i].type = "notification"})
        + Cardinality({i \in 1..Len(callsInFlight) : callsInFlight[i].call = "sendNotification"})

ActivityRoom ==
    /\ inserted + Len(callsInFlight) < MaxInsertions
    /\ Len(callsInFlight) < MaxCallsInFlight

ActivityNext ==
    \/ ActivityRoom /\ \E medicineId \in MedicineArgs : DispensePill(medicineId)
    \/ ActivityRoom /\ NotificationsSent < MaxNotifications
         /\ \E type \in NotificationTypes : SendNotification(type)
    \/ resetTimers < MaxResetTimers /\ \E i \in 1..MaxCallsInFlight : RequestSettled(i, TRUE)
    \/ failures < MaxFailures /\ \E i \in 1..MaxCallsInFlight : RequestSettled(i, FALSE)
    \/ ResetTrigger(TRUE)
    \/ failures < MaxFailures /\ ResetTrigger(FALSE)

----------------------------------------------------------------------------
\* VoiceService: identifyIntent, generateResponse, processQuery
\*
\* A string that the service searches is a sequence of characters. A response is the
\* sequence of the pieces its template is put together from: the fixed text of the
\* template, the names and the separators that join() puts between them, the counts.
\* The Hindi and Kannada templates are named by their language and their English wording.

Languages == {"en", "hi", "kn"}

UpperCase ==
    <<"A", "B", "C", "D", "E", "F", "G", "H", "I", "J", "K", "L", "M",
      "N", "O", "P", "Q", "R", "S", "T", "U", "V", "W", "X", "Y", "Z">>

LowerCase ==
    <<"a", "b", "c", "d", "e", "f", "g", "h", "i", "j", "k", "l", "m",
      "n", "o", "p", "q", "r", "s", "t", "u", "v", "w", "x", "y", "z">>

\* String.prototype.toLowerCase: the scripts of the queries other than Latin have no case
toLowerCase(str) ==
    [i \in 1..Len(str) |->
        IF \E k \in 1..Len(UpperCase) : UpperCase[k] = str[i]
        THEN LowerCase[CHOOSE k \in 1..Len(UpperCase) : UpperCase[k] = str[i]]
        ELSE str[i]]

\* String.prototype.includes
includes(str, searchString) ==
    \E i \in 0..(Len(str) - Len(searchString)) :
        \A j \in 1..Len(searchString) : str[i + j] = searchString[j]

\* the substrings that identifyIntent looks for, character by character; a character
\* outside ASCII is written as its code point

EnDidITake ==
    <<"d", "i", "d", " ", "i", " ", "t", "a", "k", "e">>

EnTaken ==
    <<"t", "a", "k", "e", "n">>

EnHaveITaken ==
    <<"h", "a", "v", "e", " ", "i", " ", "t", "a", "k", "e", "n">>

EnNext ==
    <<"n", "e", "x", "t">>

EnMedicine ==
    <<"m", "e", "d", "i", "c", "i", "n", "e">>

EnStock ==
    <<"s", "t", "o", "c", "k">>

EnRunningLow ==
    <<"r", "u", "n", "n", "i", "n", "g", " ", "l", "o", "w">>

EnRefill ==
    <<"r", "e", "f", "i", "l", "l">>

EnSchedule ==
    <<"s", "c", "h", "e", "d", "u", "l", "e">>

EnWhen ==
    <<"w", "h", "e", "n">>

\* Hindi: 'took the medicine'
HiDavaLi ==
    <<"U+0926", "U+0935", "U+093E", " ", "U+0932", "U+0940">>

\* Hindi: 'ate'
HiKhai ==
    <<"U+0916", "U+093E", "U+0908">>

\* Hindi: 'next medicine'
HiAgliDava ==
    <<"U+0905", "U+0917", "U+0932", "U+0940", " ", "U+0926", "U+0935", "U+093E">>

\* Hindi: 'when to take'
HiKabLeni ==
    <<"U+0915", "U+092C", " ", "U+0932", "U+0947", "U+0928", "U+0940">>

\* Hindi: 'stock'
HiStock ==
    <<"U+0938", "U+094D", "U+091F", "U+0949", "U+0915">>

\* Hindi: 'finished'
HiKhatm ==
    <<"U+0916", "U+0924", "U+094D", "U+092E">>

\* Kannada: 'took the medicine'
KnAushadhiTegedukonde ==
    <<"U+0C94", "U+0CB7", "U+0CA7", "U+0CBF", " ", "U+0CA4", "U+0CC6", "U+0C97", "U+0CC6",
      "U+0CA6", "U+0CC1", "U+0C95", "U+0CCA", "U+0C82", "U+0CA1", "U+0CC6">>

\* Kannada: 'consumed'
KnSeviside ==
    <<"U+0CB8", "U+0CC7", "U+0CB5", "U+0CBF", "U+0CB8", "U+0CBF", "U+0CA6", "U+0CC6">>

\* Kannada: 'next medicine'
KnMundinaAushadhi ==
    <<"U+0CAE", "U+0CC1", "U+0C82", "U+0CA6", "U+0CBF", "U+0CA8", " ", "U+0C94", "U+0CB7",
      "U+0CA7", "U+0CBF">>

\* Kannada: 'when'
KnYavaga ==
    <<"U+0CAF", "U+0CBE", "U+0CB5", "U+0CBE", "U+0C97">>

\* Kannada: 'stock'
KnStock ==
    <<"U+0CB8", "U+0CCD", "U+0C9F", "U+0CBE", "U+0C95", "U+0CCD">>

\* Kannada: 'running out'
KnMugiyuttide ==
    <<"U+0CAE", "U+0CC1", "U+0C97", "U+0CBF", "U+0CAF", "U+0CC1", "U+0CA4", "U+0CCD",
      "U+0CA4", "U+0CBF", "U+0CA6", "U+0CC6">>

\* the sample queries of the VoiceAssistant, four for each language

EnQuery1 ==
    <<"H", "a", "v", "e", " ", "I", " ", "t", "a", "k", "e", "n", " ", "m", "y", " ", "m",
      "e", "d", "i", "c", "i", "n", "e", " ", "t", "o", "d", "a", "y", "?">>

EnQuery2 ==
    <<"W", "h", "a", "t", " ", "m", "e", "d", "i", "c", "i", "n", "e", "s", " ", "d", "o",
      " ", "I", " ", "s", "t", "i", "l", "l", " ", "n", "e", "e", "d", " ", "t", "o", " ",
      "t", "a", "k", "e", "?">>

EnQuery3 ==
    <<"W", "h", "i", "c", "h", " ", "m", "e", "d", "i", "c", "i", "n", "e", "s", " ", "a",
      "r", "e", " ", "r", "u", "n", "n", "i", "n", "g", " ", "l", "o", "w", "?">>

EnQuery4 ==
    <<"W", "h", "e", "n", " ", "i", "s", " ", "m", "y", " ", "n", "e", "x", "t", " ", "d",
      "o", "s", "e", "?">>

HiQuery1 ==
    <<"U+0915", "U+094D", "U+092F", "U+093E", " ", "U+092E", "U+0948", "U+0902", "U+0928",
      "U+0947", " ", "U+0906", "U+091C", " ", "U+0905", "U+092A", "U+0928", "U+0940", " ",
      "U+0926", "U+0935", "U+093E", " ", "U+0932", "U+0940", " ", "U+0939", "U+0948", "?">>

HiQuery2 ==
    <<"U+092E", "U+0941", "U+091D", "U+0947", " ", "U+0905", "U+092D", "U+0940", " ",
      "U+092D", "U+0940", " ", "U+0915", "U+094C", "U+0928", " ", "U+0938", "U+0940", " ",
      "U+0926", "U+0935", "U+093E", "U+0907", "U+092F", "U+093E", "U+0901", " ", "U+0932",
      "U+0947", "U+0928", "U+0940", " ", "U+0939", "U+0948", "U+0902", "?">>

HiQuery3 ==
    <<"U+0915", "U+094C", "U+0928", " ", "U+0938", "U+0940", " ", "U+0926", "U+0935",
      "U+093E", "U+0907", "U+092F", "U+093E", "U+0901", " ", "U+0915", "U+092E", " ",
      "U+0939", "U+094B", " ", "U+0930", "U+0939", "U+0940", " ", "U+0939", "U+0948",
      "U+0902", "?">>

HiQuery4 ==
    <<"U+092E", "U+0947", "U+0930", "U+0940", " ", "U+0905", "U+0917", "U+0932", "U+0940",
      " ", "U+0916", "U+0941", "U+0930", "U+093E", "U+0915", " ", "U+0915", "U+092C", " ",
      "U+0939", "U+0948", "?">>

KnQuery1 ==
    <<"U+0CA8", "U+0CBE", "U+0CA8", "U+0CC1", " ", "U+0C87", "U+0C82", "U+0CA6", "U+0CC1",
      " ", "U+0CA8", "U+0CA8", "U+0CCD", "U+0CA8", " ", "U+0C94", "U+0CB7", "U+0CA7",
      "U+0CBF", " ", "U+0CA4", "U+0CC6", "U+0C97", "U+0CC6", "U+0CA6", "U+0CC1", "U+0C95",
      "U+0CCA", "U+0C82", "U+0CA1", "U+0CBF", "U+0CA6", "U+0CCD", "U+0CA6", "U+0CC7",
      "U+0CA8", "U+0CC6", "U+0CAF", "U+0CC7", "?">>

KnQuery2 ==
    <<"U+0CA8", "U+0CBE", "U+0CA8", "U+0CC1", " ", "U+0C87", "U+0CA8", "U+0CCD", "U+0CA8",
      "U+0CC2", " ", "U+0CAF", "U+0CBE", "U+0CB5", " ", "U+0C94", "U+0CB7", "U+0CA7",
      "U+0CBF", "U+0C97", "U+0CB3", "U+0CA8", "U+0CCD", "U+0CA8", "U+0CC1", " ", "U+0CA4",
      "U+0CC6", "U+0C97", "U+0CC6", "U+0CA6", "U+0CC1", "U+0C95", "U+0CCA", "U+0CB3",
      "U+0CCD", "U+0CB3", "U+0CAC", "U+0CC7", "U+0C95", "U+0CC1", "?">>

KnQuery3 ==
    <<"U+0CAF", "U+0CBE", "U+0CB5", " ", "U+0C94", "U+0CB7", "U+0CA7", "U+0CBF", "U+0C97",
      "U+0CB3", "U+0CC1", " ", "U+0C95", "U+0CA1", "U+0CBF", "U+0CAE", "U+0CC6", "U+0CAF",
      "U+0CBE", "U+0C97", "U+0CC1", "U+0CA4", "U+0CCD", "U+0CA4", "U+0CBF", "U+0CB5",
      "U+0CC6", "?">>

KnQuery4 ==
    <<"U+0CA8", "U+0CA8", "U+0CCD", "U+0CA8", " ", "U+0CAE", "U+0CC1", "U+0C82", "U+0CA6",
      "U+0CBF", "U+0CA8", " ", "U+0CA1", "U+0CCB", "U+0CB8", "U+0CCD", " ", "U+0CAF",
      "U+0CBE", "U+0CB5", "U+0CBE", "U+0C97", "?">>

\* transcripts that speech recognition may hand to processQuery

SpokenQuery1 ==
    <<"W", "h", "a", "t", " ", "i", "s", " ", "m", "y", " ", "N", "E", "X", "T", " ", "M",
      "E", "D", "I", "C", "I", "N", "E", "?">>

SpokenQuery2 ==
    <<"H", "a", "v", "e", " ", "I", " ", "t", "a", "k", "e", "n", " ", "m", "y", " ", "n",
      "e", "x", "t", " ", "m", "e", "d", "i", "c", "i", "n", "e", "?">>

SpokenQuery3 ==
    <<"D", "o", " ", "I", " ", "n", "e", "e", "d", " ", "a", " ", "r", "e", "f", "i", "l",
      "l", "?">>

SpokenQuery4 ==
    <<"S", "h", "o", "w", " ", "m", "y", " ", "s", "c", "h", "e", "d", "u", "l", "e">>

SpokenQuery5 ==
    <<"H", "e", "l", "l", "o">>

SpokenQuery6 ==
    <<"U+092E", "U+0947", "U+0930", "U+0940", " ", "U+0905", "U+0917", "U+0932", "U+0940",
      " ", "U+0926", "U+0935", "U+093E", " ", "U+0915", "U+092C", " ", "U+0932", "U+0947",
      "U+0928", "U+0940", " ", "U+0939", "U+0948", "?">>

Queries ==
    {EnQuery1, EnQuery2, EnQuery3, EnQuery4, HiQuery1, HiQuery2,
     HiQuery3, HiQuery4, KnQuery1, KnQuery2, KnQuery3, KnQuery4,
     SpokenQuery1, SpokenQuery2, SpokenQuery3, SpokenQuery4, SpokenQuery5, SpokenQuery6}

\* mutant: the next_dose rule of English is tested before its check_intake rule
identifyIntent_NextBeforeIntake(query) ==
    LET lowerQuery == toLowerCase(query)
    IN  IF includes(lowerQuery, EnNext) /\ includes(lowerQuery, EnMedicine)
            THEN "next_dose"
        ELSE IF \/ includes(lowerQuery, EnDidITake)
                \/ includes(lowerQuery, EnTaken)
                \/ includes(lowerQuery, EnHaveITaken) THEN "check_intake"
        ELSE IF \/ includes(lowerQuery, EnStock)
                \/ includes(lowerQuery, EnRunningLow)
                \/ includes(lowerQuery, EnRefill) THEN "check_stock"
        ELSE IF includes(lowerQuery, EnSchedule) \/ includes(lowerQuery, EnWhen)
            THEN "schedule_query"
        ELSE IF includes(lowerQuery, HiDavaLi) \/ includes(lowerQuery, HiKhai)
            THEN "check_intake"
        ELSE IF includes(lowerQuery, HiAgliDava) \/ includes(lowerQuery, HiKabLeni)
            THEN "next_dose"
        ELSE IF includes(lowerQuery, HiStock) \/ includes(lowerQuery, HiKhatm)
            THEN "check_stock"
        ELSE IF \/ includes(lowerQuery, KnAushadhiTegedukonde)
                \/ includes(lowerQuery, KnSeviside) THEN "check_intake"
        ELSE IF includes(lowerQuery, KnMundinaAushadhi) \/ includes(lowerQuery, KnYavaga)
            THEN "next_dose"
        ELSE IF includes(lowerQuery, KnStock) \/ includes(lowerQuery, KnMugiyuttide)
            THEN "check_stock"
        ELSE "general_query"

identifyIntent(query) ==
    LET lowerQuery == toLowerCase(query)
    IN  IF \/ includes(lowerQuery, EnDidITake)
           \/ includes(lowerQuery, EnTaken)
           \/ includes(lowerQuery, EnHaveITaken) THEN "check_intake"
        ELSE IF includes(lowerQuery, EnNext) /\ includes(lowerQuery, EnMedicine)
            THEN "next_dose"
        ELSE IF \/ includes(lowerQuery, EnStock)
                \/ includes(lowerQuery, EnRunningLow)
                \/ includes(lowerQuery, EnRefill) THEN "check_stock"
        ELSE IF includes(lowerQuery, EnSchedule) \/ includes(lowerQuery, EnWhen)
            THEN "schedule_query"
        ELSE IF includes(lowerQuery, HiDavaLi) \/ includes(lowerQuery, HiKhai)
            THEN "check_intake"
        ELSE IF includes(lowerQuery, HiAgliDava) \/ includes(lowerQuery, HiKabLeni)
            THEN "next_dose"
        ELSE IF includes(lowerQuery, HiStock) \/ includes(lowerQuery, HiKhatm)
            THEN "check_stock"
        ELSE IF \/ includes(lowerQuery, KnAushadhiTegedukonde)
                \/ includes(lowerQuery, KnSeviside) THEN "check_intake"
        ELSE IF includes(lowerQuery, KnMundinaAushadhi) \/ includes(lowerQuery, KnYavaga)
            THEN "next_dose"
        ELSE IF includes(lowerQuery, KnStock) \/ includes(lowerQuery, KnMugiyuttide)
            THEN "check_stock"
        ELSE "general_query"

\* Array.prototype.join, as the pieces of the joined string
RECURSIVE join(_, _)
join(arr, separator) ==
    IF arr = << >> THEN << >>
    ELSE IF Len(arr) = 1 THEN arr
    ELSE <<Head(arr), separator>> \o join(Tail(arr), separator)

MinutesPerDay == 1440

\* Date.prototype.toDateString: the day of a date
toDateString(date) == date \div MinutesPerDay

\* this.medicines.find(m => m.id === s.medicineId)?.name, a sequence that is empty when
\* no medicine has the id; filter(Boolean) then drops the undefined and the empty names
NamesOf(scheds, meds) ==
    LET nameOf(s) == IF FindById(meds, s.medicineId) = 0 THEN ""
                     ELSE meds[FindById(meds, s.medicineId)].name
        names == [i \in 1..Len(scheds) |-> nameOf(scheds[i])]
        Boolean(name) == name # ""
    IN  SelectSeq(names, Boolean)

generateIntakeResponse(takenMedicines, pendingMedicines, language) ==
    LET responses ==
          [en |->
            [taken |-> IF Len(takenMedicines) > 0
                THEN <<"Yes, you have taken: ">> \o join(takenMedicines, ", ") \o <<".">>
                ELSE <<"You haven't taken any medicines yet today.">>,
             pending |-> IF Len(pendingMedicines) > 0
                THEN <<" You still need to take: ">> \o join(pendingMedicines, ", ") \o <<".">>
                ELSE <<" You have taken all your scheduled medicines for today.">>],
           hi |->
            [taken |-> IF Len(takenMedicines) > 0
                THEN <<"(hi) Yes, you have taken: ">> \o join(takenMedicines, ", ")
                        \o <<"(hi) .">>
                ELSE <<"(hi) You have not taken any medicine yet today.">>,
             pending |-> IF Len(pendingMedicines) > 0
                THEN <<"(hi)  You still have to take: ">> \o join(pendingMedicines, ", ")
                        \o <<"(hi) .">>
                ELSE <<"(hi)  You have taken all of today's scheduled medicines.">>],
           kn |->
            [taken |-> IF Len(takenMedicines) > 0
                THEN <<"(kn) Yes, you have taken: ">> \o join(takenMedicines, ", ")
                        \o <<"(kn) .">>
                ELSE <<"(kn) You have not taken any medicine yet today.">>,
             pending |-> IF Len(pendingMedicines) > 0
                THEN <<"(kn)  You still have to take: ">> \o join(pendingMedicines, ", ")
                        \o <<"(kn) .">>
                ELSE <<"(kn)  You have taken all of today's scheduled medicines.">>]]
    IN  responses[language].taken \o responses[language].pending

generateResponse(intent, language, meds, scheds, today) ==
    LET isToday(s) == toDateString(s.scheduledTime) = toDateString(today)
        isTaken(s) == s.status = "taken"
        isPending(s) == s.status = "pending"
        isLow(m) == m.remainingQuantity <= m.criticalThreshold
        todaySchedules == SelectSeq(scheds, isToday)
        takenMedicines == NamesOf(SelectSeq(todaySchedules, isTaken), meds)
        pendingMedicines == NamesOf(SelectSeq(todaySchedules, isPending), meds)
        lowStock == SelectSeq(meds, isLow)
        lowStockMedicines == [i \in 1..Len(lowStock) |-> lowStock[i].name]
        counts == <<ToString(Len(todaySchedules)), ToString(Len(takenMedicines)),
                    ToString(Len(pendingMedicines))>>
        responses ==
          [en |->
            [check_intake |-> generateIntakeResponse(takenMedicines, pendingMedicines, "en"),
             next_dose |-> IF Len(pendingMedicines) > 0
                THEN <<"Your next medicines to take are: ">> \o join(pendingMedicines, ", ")
                ELSE <<"You have no pending medicines for today.">>,
             check_stock |-> IF Len(lowStockMedicines) > 0
                THEN <<"These medicines are running low: ">> \o join(lowStockMedicines, ", ")
                        \o <<". I can help you order refills.">>
                ELSE <<"All your medicines have adequate stock.">>,
             schedule_query |-> <<"You have ", counts[1], " medicines scheduled for today. ",
                                  counts[2], " taken, ", counts[3], " pending.">>,
             general_query |-> <<"I can help you with medicine reminders, stock checks, and schedules. Try asking \"Have I taken my medicine?\" or \"What medicines are running low?\"">>],
           hi |->
            [check_intake |-> generateIntakeResponse(takenMedicines, pendingMedicines, "hi"),
             next_dose |-> IF Len(pendingMedicines) > 0
                THEN <<"(hi) Your next medicines are: ">> \o join(pendingMedicines, ", ")
                ELSE <<"(hi) You have no medicine left for today.">>,
             check_stock |-> IF Len(lowStockMedicines) > 0
                THEN <<"(hi) These medicines are running low: ">>
                        \o join(lowStockMedicines, ", ")
                        \o <<"(hi) . I can help to order a refill.">>
                ELSE <<"(hi) The stock of all your medicines is sufficient.">>,
             schedule_query |-> <<"(hi) Today you have ", counts[1],
                                  "(hi)  medicines scheduled. ", counts[2],
                                  "(hi)  taken, ", counts[3], "(hi)  left.">>,
             general_query |-> <<"(hi) I can help you with medicine reminders, stock checks and schedules.">>],
           kn |->
            [check_intake |-> generateIntakeResponse(takenMedicines, pendingMedicines, "kn"),
             next_dose |-> IF Len(pendingMedicines) > 0
                THEN <<"(kn) Your next medicines: ">> \o join(pendingMedicines, ", ")
                ELSE <<"(kn) You have no medicine left for today.">>,
             check_stock |-> IF Len(lowStockMedicines) > 0
                THEN <<"(kn) These medicines are running low: ">>
                        \o join(lowStockMedicines, ", ")
                        \o <<"(kn) . I can help to order a refill.">>
                ELSE <<"(kn) The stock of all your medicines is sufficient.">>,
             schedule_query |-> <<"(kn) Today you have ", counts[1],
                                  "(kn)  medicines scheduled. ", counts[2],
                                  "(kn)  taken, ", counts[3], "(kn)  left.">>,
             general_query |-> <<"(kn) I can help you with medicine reminders, stock checks and schedules.">>]]
    IN  \* every intent that identifyIntent returns is a key of the table
        responses[language][intent]

\* mutant: a snoozed schedule counts as pending
processQuery_SnoozedAsPending(query, language, meds, scheds, today) ==
    LET intent == identifyIntent(query)
        counted == [i \in 1..Len(scheds) |->
                        IF scheds[i].status = "snoozed"
                        THEN [scheds[i] EXCEPT !.status = "pending"]
                        ELSE scheds[i]]
    IN  [query |-> query, language |-> language, intent |-> intent,
         response |-> generateResponse(intent, language, meds, counted, today),
         timestamp |-> today]

processQuery(query, language, meds, scheds, today) ==
    LET intent == identifyIntent(query)
    IN  [query |-> query, language |-> language, intent |-> intent,
         response |-> generateResponse(intent, language, meds, scheds, today),
         timestamp |-> today]

\* The states of the hook that the VoiceAssistant can be rendered with: the sample data
\* after any of the hook's calls, or none, has been made for each schedule.
HookCalls == {"none", "markDoseTaken", "markTakenLate", "skipDose", "snoozeDose"}

RECURSIVE AfterCalls(_, _, _)
AfterCalls(state, calls, i) ==
    IF i > Len(sampleSchedules) THEN state
    ELSE LET id == sampleSchedules[i].id
             k == FindById(state.schedules, id)
             next ==
               CASE calls[i] = "markDoseTaken" ->
                        [schedules |-> CompleteSchedule(state.schedules, id, StartMinute, "taken"),
                         medicines |-> updateStock(state.schedules[k].medicineId,
                                                   state.medicines, TRUE)]
                 [] calls[i] = "markTakenLate" ->
                        [schedules |-> CompleteSchedule(state.schedules, id, StartMinute,
                                                        "taken_late"),
                         medicines |-> updateStock(state.schedules[k].medicineId,
                                                   state.medicines, TRUE)]
                 [] calls[i] = "skipDose" ->
                        [schedules |-> SkipSchedule(state.schedules, id, NoNote),
                         medicines |-> state.medicines]
                 [] calls[i] = "snoozeDose" ->
                        [schedules |-> SnoozeSchedule(state.schedules, id, StartMinute + 30),
                         medicines |-> state.medicines]
                 [] OTHER -> state
         IN  AfterCalls(next, calls, i + 1)

HookStates ==
    { AfterCalls([schedules |-> sampleSchedules, medicines |-> sampleMedicines], calls, 1) :
        calls \in [1..Len(sampleSchedules) -> HookCalls] }

VoiceInit ==
    /\ currentLanguage = "en"
    /\ voiceMedicines = << >>
    /\ voiceSchedules = << >>
    /\ lastQuery = << >>
    /\ effects = 0
    /\ asked = 0

\* the effect of the VoiceAssistant: setLanguage, then updateMedicineData
VoiceAssistantEffect(language, state) ==
    /\ currentLanguage' = language
    /\ voiceMedicines' = state.medicines
    /\ voiceSchedules' = state.schedules
    /\ effects' = effects + 1
    /\ UNCHANGED <<lastQuery, asked>>
    /\ UNCHANGED notVoiceVars

\* handleTestQuery and handleStartListening: processQuery, then setLastQuery
ProcessQuery(query) ==
    /\ lastQuery' = <<processQuery(query, currentLanguage, voiceMedicines, voiceSchedules, now)>>
    /\ asked' = asked + 1
    /\ UNCHANGED <<currentLanguage, voiceMedicines, voiceSchedules, effects>>
    /\ UNCHANGED notVoiceVars

\* midnight passes
DayPasses ==
    /\ now < MaxDays * MinutesPerDay
    /\ now' = now + MinutesPerDay
    /\ UNCHANGED <<medicines, schedules, refillOrders, loading, refillsInFlight, ops>>
    /\ UNCHANGED <<stockVars, pollVars, activityVars, voiceVars, uiVars>>

VoiceNext ==
    \/ effects < MaxEffects
         /\ \E language \in Languages, state \in HookStates :
                VoiceAssistantEffect(language, state)
    \/ asked < MaxQueries /\ \E query \in Queries : ProcessQuery(query)
    \/ DayPasses

----------------------------------------------------------------------------
\* ShoppingCartDashboard
\*
\* A click handler runs with the values of the last render and React renders again
\* before the next event; a state update made by the continuation of a promise or by a
\* timer is rendered by a later task, and a click may be handled before it.

\* the names of the sample medicines, character by character
Characters(name) ==
    CASE name = "Metformin 500mg" ->
            <<"M", "e", "t", "f", "o", "r", "m", "i", "n", " ", "5", "0", "0", "m", "g">>
      [] name = "Lisinopril 10mg" ->
            <<"L", "i", "s", "i", "n", "o", "p", "r", "i", "l", " ", "1", "0", "m", "g">>
      [] name = "Vitamin D3 1000IU" ->
            <<"V", "i", "t", "a", "m", "i", "n", " ", "D", "3", " ", "1", "0", "0", "0",
              "I", "U">>

\* the medicines that searchMedicine filters
mockMedicines ==
    << [id |-> "1mg_001", name |-> Characters("Metformin 500mg"), availability |-> TRUE],
       [id |-> "1mg_002", name |-> Characters("Lisinopril 10mg"), availability |-> TRUE] >>

\* what the user types into the search field
SearchQueries == { <<"m", "g">>, <<"M", "E", "T">>, <<" ">> }

searchMedicine(query) ==
    LET matches(med) == includes(toLowerCase(med.name), toLowerCase(query))
    IN  SelectSeq(mockMedicines, matches)

\* !query.trim()
IsBlank(query) == \A i \in 1..Len(query) : query[i] = " "

RECURSIVE Flat(_)
\* Array.prototype.filter(item => item !== null) on a list of optional items
Flat(options) ==
    IF options = << >> THEN << >> ELSE Head(options) \o Flat(Tail(options))

\* the cart item that loadCriticalMedicines makes of a medicine, if any
CriticalItem(medicine) ==
    LET results == searchMedicine(Characters(medicine.name))
    IN  IF Len(results) > 0
        THEN << [id |-> results[1].id, quantity |-> medicine.totalQuantity,
                 originalMedicine |-> <<medicine.id>>] >>
        ELSE << >>

HasItem(items, id) == \E k \in 1..Len(items) : items[k].id = id

CriticalItems(criticalMedicines) ==
    Flat([k \in 1..Len(criticalMedicines) |-> CriticalItem(criticalMedicines[k])])

\* the state that a render of the cart shows
Shown(items, isLoading, status, results) ==
    [cartItems |-> items, loading |-> isLoading, orderStatus |-> status,
     searchResults |-> results]

UiInit ==
    /\ cartItems = << >>
    /\ cartLoading = FALSE
    /\ orderStatus = "idle"
    /\ searchResults = << >>
    /\ rendered = Shown(<< >>, FALSE, "idle", << >>)
    /\ searchesInFlight = << >>
    /\ cartLoadsInFlight = << >>
    /\ cartOrdersInFlight = << >>
    /\ cartTimers = 0
    /\ cartSeen = << >>
    /\ refillLogs = 0
    /\ orderingMedicine = << >>
    /\ hardwareDispense = << >>
    /\ selectedTimeframe = "today"
    /\ uiOps = 0

\* the effect on [medicines]: loadCriticalMedicines up to its await when a medicine is
\* at critical level
CartEffect ==
    /\ cartSeen # <<medicines>>
    /\ cartSeen' = <<medicines>>
    /\ LET isCritical(m) == checkStockLevel(m) = "critical"
           criticalMedicines == SelectSeq(medicines, isCritical)
       IN  IF Len(criticalMedicines) > 0
           THEN /\ cartLoading' = TRUE
                /\ cartLoadsInFlight' = Append(cartLoadsInFlight, criticalMedicines)
                /\ rendered' = Shown(cartItems, TRUE, orderStatus, searchResults)
           ELSE UNCHANGED <<cartLoading, cartLoadsInFlight, rendered>>
    /\ UNCHANGED <<cartItems, orderStatus, searchResults, searchesInFlight,
                   cartOrdersInFlight, cartTimers>>
    /\ UNCHANGED otherUiVars
    /\ UNCHANGED notUiVars

\* the searches of loadCriticalMedicines have resolved: the cart is replaced
LoadSettled(i) ==
    /\ i \in 1..Len(cartLoadsInFlight)
    /\ cartItems' = CriticalItems(cartLoadsInFlight[i])
    /\ cartLoading' = FALSE
    /\ cartLoadsInFlight' = RemoveAt(cartLoadsInFlight, i)
    /\ UNCHANGED <<rendered, orderStatus, searchResults, searchesInFlight,
                   cartOrdersInFlight, cartTimers, cartSeen>>
    /\ UNCHANGED otherUiVars
    /\ UNCHANGED notUiVars

\* React renders the updates that a continuation or a timer has made
Render ==
    /\ rendered # Shown(cartItems, cartLoading, orderStatus, searchResults)
    /\ rendered' = Shown(cartItems, cartLoading, orderStatus, searchResults)
    /\ UNCHANGED <<cartItems, cartLoading, orderStatus, searchResults, searchesInFlight,
                   cartLoadsInFlight, cartOrdersInFlight, cartTimers, cartSeen>>
    /\ UNCHANGED otherUiVars
    /\ UNCHANGED notUiVars

\* searchMedicines(query) up to its await, or to its return for a blank query
SearchMedicines(query) ==
    /\ ~ rendered.loading
    /\ IF IsBlank(query)
       THEN /\ searchResults' = << >>
            /\ UNCHANGED <<cartLoading, searchesInFlight>>
       ELSE /\ cartLoading' = TRUE
            /\ searchesInFlight' = Append(searchesInFlight, query)
            /\ UNCHANGED searchResults
    /\ rendered' = Shown(cartItems, cartLoading', orderStatus, searchResults')
    /\ uiOps' = uiOps + 1
    /\ UNCHANGED <<cartItems, orderStatus, cartLoadsInFlight, cartOrdersInFlight,
                   cartTimers, cartSeen>>
    /\ UNCHANGED <<refillLogs, orderingMedicine, hardwareDispense, selectedTimeframe>>
    /\ UNCHANGED notUiVars

SearchSettled(i) ==
    /\ i \in 1..Len(searchesInFlight)
    /\ searchResults' = searchMedicine(searchesInFlight[i])
    /\ cartLoading' = FALSE
    /\ searchesInFlight' = RemoveAt(searchesInFlight, i)
    /\ UNCHANGED <<cartItems, rendered, orderStatus, cartLoadsInFlight,
                   cartOrdersInFlight, cartTimers, cartSeen>>
    /\ UNCHANGED otherUiVars
    /\ UNCHANGED notUiVars

\* a click handler has changed the cart: React renders
CartChanged(items) ==
    /\ cartItems' = items
    /\ rendered' = Shown(items, cartLoading, orderStatus, searchResults)
    /\ uiOps' = uiOps + 1
    /\ UNCHANGED <<cartLoading, orderStatus, searchResults, searchesInFlight,
                   cartLoadsInFlight, cartOrdersInFlight, cartTimers, cartSeen>>
    /\ UNCHANGED <<refillLogs, orderingMedicine, hardwareDispense, selectedTimeframe>>
    /\ UNCHANGED notUiVars

\* addToCart: existingItem is looked up in the cart of the render, the updaters are
\* applied to the latest cart
addToCart(medicine, quantity) ==
    IF HasItem(rendered.cartItems, medicine.id)
    THEN [k \in 1..Len(cartItems) |->
            IF cartItems[k].id = medicine.id
            THEN [cartItems[k] EXCEPT !.quantity = @ + quantity]
            ELSE cartItems[k]]
    ELSE Append(cartItems, [id |-> medicine.id, quantity |-> quantity,
                            originalMedicine |-> << >>])

removeFromCart(medicineId) ==
    LET others(item) == item.id # medicineId
    IN  SelectSeq(cartItems, others)

updateQuantity(medicineId, newQuantity) ==
    IF newQuantity <= 0 THEN removeFromCart(medicineId)
    ELSE [k \in 1..Len(cartItems) |->
            IF cartItems[k].id = medicineId
            THEN [cartItems[k] EXCEPT !.quantity = newQuantity]
            ELSE cartItems[k]]

\* the button Add to Cart of a search result that is shown
AddToCart(r) ==
    /\ r \in 1..Len(rendered.searchResults)
    /\ rendered.searchResults[r].availability
    /\ CartChanged(addToCart(rendered.searchResults[r], 1))

\* the buttons minus and plus of a cart item that is shown
UpdateQuantity(k, delta) ==
    /\ k \in 1..Len(rendered.cartItems)
    /\ CartChanged(updateQuantity(rendered.cartItems[k].id,
                                  rendered.cartItems[k].quantity + delta))

RemoveFromCart(k) ==
    /\ k \in 1..Len(rendered.cartItems)
    /\ CartChanged(removeFromCart(rendered.cartItems[k].id))

\* the button Clear Cart
ClearCart ==
    /\ Len(rendered.cartItems) > 0
    /\ CartChanged(<< >>)

\* placeOrder up to its await
PlaceOrder ==
    /\ Len(rendered.cartItems) > 0
    /\ ~ rendered.loading
    /\ rendered.orderStatus # "processing"
    /\ orderStatus' = "processing"
    /\ cartLoading' = TRUE
    /\ cartOrdersInFlight' = Append(cartOrdersInFlight, rendered.cartItems)
    /\ rendered' = Shown(cartItems, TRUE, "processing", searchResults)
    /\ uiOps' = uiOps + 1
    /\ UNCHANGED <<cartItems, searchResults, searchesInFlight, cartLoadsInFlight,
                   cartTimers, cartSeen>>
    /\ UNCHANGED <<refillLogs, orderingMedicine, hardwareDispense, selectedTimeframe>>
    /\ UNCHANGED notUiVars

\* the orders of a placeOrder have resolved: handleRefillOrder logs each item that has
\* an originalMedicine, the cart is emptied, the reset timer is set
OrderSettled(i) ==
    /\ i \in 1..Len(cartOrdersInFlight)
    /\ LET items == cartOrdersInFlight[i]
       IN  refillLogs' = refillLogs
                + Cardinality({k \in 1..Len(items) : items[k].originalMedicine # << >>})
    /\ orderStatus' = "success"
    /\ cartItems' = << >>
    /\ cartTimers' = cartTimers + 1
    /\ cartLoading' = FALSE
    /\ cartOrdersInFlight' = RemoveAt(cartOrdersInFlight, i)
    /\ UNCHANGED <<rendered, searchResults, searchesInFlight, cartLoadsInFlight, cartSeen>>
    /\ UNCHANGED <<orderingMedicine, hardwareDispense, selectedTimeframe, uiOps>>
    /\ UNCHANGED notUiVars

\* a timer of 3 seconds fires: setOrderStatus('idle')
ResetTimerFired ==
    /\ cartTimers > 0
    /\ cartTimers' = cartTimers - 1
    /\ orderStatus' = "idle"
    /\ UNCHANGED <<cartItems, rendered, cartLoading, searchResults, searchesInFlight,
                   cartLoadsInFlight, cartOrdersInFlight, cartSeen>>
    /\ UNCHANGED otherUiVars
    /\ UNCHANGED notUiVars

----------------------------------------------------------------------------
\* Dashboard: the button IoT Dispense

\* the schedules of the day of a date
SchedulesOfDay(scheds, today) ==
    LET isToday(s) == toDateString(s.scheduledTime) = toDateString(today)
    IN  SelectSeq(scheds, isToday)

\* handleDispenseFromHardware(medicine.id) on the card of the pending schedule k, up to
\* the first await of dispensePill; it keeps the schedules and the markDoseTaken of
\* its render
HandleDispenseFromHardware(k) ==
    /\ k \in 1..Len(schedules)
    /\ schedules[k].status = "pending"
    /\ toDateString(schedules[k].scheduledTime) = toDateString(now)
    /\ FindById(medicines, schedules[k].medicineId) # 0
    /\ hardwareDispense = << >>
    /\ hardwareDispense' = <<[medicineId |-> schedules[k].medicineId,
                              todaySchedules |-> SchedulesOfDay(schedules, now),
                              schedules |-> schedules,
                              medicines |-> medicines]>>
    /\ callsInFlight' = Append(callsInFlight,
            [call |-> "dispensePill", stage |-> "trigger", arg |-> schedules[k].medicineId])
    /\ uiOps' = uiOps + 1
    /\ UNCHANGED <<activities, inserted, failures, resetTimers, returned>>
    /\ UNCHANGED <<refillLogs, orderingMedicine, selectedTimeframe>>
    /\ UNCHANGED <<doseVars, stockVars, pollVars, voiceVars, cartVars>>

\* dispensePill has returned: when it returned true, the first pending schedule of the
\* medicine among the schedules of the render is passed to onMarkTaken
DispenseReturned ==
    /\ hardwareDispense # << >>
    /\ callsInFlight = << >>
    /\ returned # << >>
    /\ hardwareDispense' = << >>
    /\ LET d == hardwareDispense[1]
           isTarget(s) == s.medicineId = d.medicineId /\ s.status = "pending"
           found == SelectSeq(d.todaySchedules, isTarget)
       IN  IF returned[1].value /\ Len(found) > 0
           THEN LET r == markDoseTaken(found[1].id, d.schedules, d.medicines)
                IN  /\ schedules' = r.schedules
                    /\ medicines' = r.medicines
                    /\ refillsInFlight' = r.refillsInFlight
                    /\ ops' = ops + 1
           ELSE UNCHANGED <<schedules, medicines, refillsInFlight, ops>>
    /\ UNCHANGED <<refillOrders, loading, now>>
    /\ UNCHANGED <<refillLogs, orderingMedicine, selectedTimeframe, uiOps>>
    /\ UNCHANGED <<stockVars, pollVars, activityVars, voiceVars, cartVars>>

CartRoom == uiOps < MaxCartOps

\* the cart is mounted and its effect has run with the medicines of the hook
Mounted == cartSeen = <<medicines>>

\* a visit to the cart: the application loads, a dispense may be requested on the
\* dashboard, then the cart is opened and stays open
CartNext ==
    \/ LoadSampleData
    \/ /\ ~ loading /\ cartSeen = << >> /\ CartRoom /\ callsInFlight = << >>
       /\ \E k \in 1..Len(sampleSchedules) : HandleDispenseFromHardware(k)
    \/ resetTimers < MaxResetTimers /\ \E i \in 1..MaxCallsInFlight : RequestSettled(i, TRUE)
    \/ ResetTrigger(TRUE)
    \/ DispenseReturned
    \/ RefillNext
    \/ ~ loading /\ CartEffect
    \/ \E i \in 1..MaxCartLoads : LoadSettled(i)
    \/ Mounted /\ Render
    \/ Mounted /\ CartRoom /\ Len(searchesInFlight) < MaxSearches
         /\ \E query \in SearchQueries : SearchMedicines(query)
    \/ \E i \in 1..MaxSearches : SearchSettled(i)
    \/ Mounted /\ CartRoom /\ \E r \in 1..Len(mockMedicines) : AddToCart(r)
    \/ Mounted /\ CartRoom
         /\ \E k \in 1..MaxCartItems, delta \in {-1, 1} : UpdateQuantity(k, delta)
    \/ Mounted /\ CartRoom /\ \E k \in 1..MaxCartItems : RemoveFromCart(k)
    \/ Mounted /\ CartRoom /\ ClearCart
    \/ Mounted /\ CartRoom /\ Len(cartOrdersInFlight) < MaxCartOrders
         /\ cartTimers + Len(cartOrdersInFlight) < MaxCartTimers
         /\ PlaceOrder
    \/ \E i \in 1..MaxCartOrders : OrderSettled(i)
    \/ ResetTimerFired

----------------------------------------------------------------------------
\* StockDashboard: the button Quick Order

\* handleQuickRefill(medicine) of a critical medicine up to the await of placeOrder
HandleQuickRefill(m) ==
    /\ m \in 1..Len(medicines)
    /\ checkStockLevel(medicines[m]) = "critical"
    /\ orderingMedicine = << >>
    /\ orderingMedicine' = <<medicines[m].id>>
    /\ uiOps' = uiOps + 1
    /\ UNCHANGED <<refillLogs, hardwareDispense, selectedTimeframe>>
    /\ UNCHANGED cartVars
    /\ UNCHANGED notUiVars

\* mutant: handleRefillOrder fills the stock of the medicine up
QuickRefillSettled_Restocks ==
    /\ orderingMedicine # << >>
    /\ refillLogs' = refillLogs + 1
    /\ orderingMedicine' = << >>
    /\ medicines' = [m \in 1..Len(medicines) |->
            IF medicines[m].id = orderingMedicine[1]
            THEN [medicines[m] EXCEPT !.remainingQuantity = medicines[m].totalQuantity]
            ELSE medicines[m]]
    /\ UNCHANGED <<hardwareDispense, selectedTimeframe, uiOps>>
    /\ UNCHANGED cartVars
    /\ UNCHANGED <<schedules, refillOrders, loading, refillsInFlight, now, ops>>
    /\ UNCHANGED <<stockVars, pollVars, activityVars, voiceVars>>

\* placeOrder has resolved: onRefillOrder, which is App.handleRefillOrder, logs a line
QuickRefillSettled ==
    /\ orderingMedicine # << >>
    /\ refillLogs' = refillLogs + 1
    /\ orderingMedicine' = << >>
    /\ UNCHANGED <<hardwareDispense, selectedTimeframe, uiOps>>
    /\ UNCHANGED cartVars
    /\ UNCHANGED notUiVars

----------------------------------------------------------------------------
\* The caregiver dashboards: the missed doses

Timeframes == {"today", "week", "month"}

\* date-fns subDays
subDays(date, amount) == date - amount * MinutesPerDay

\* EnhancedCaregiverDashboard.getFilteredSchedules
getFilteredSchedules(scheds, timeframe, today) ==
    LET sameDay(s) == toDateString(s.scheduledTime) = toDateString(today)
        lastWeek(s) == s.scheduledTime >= subDays(today, 7)
        lastMonth(s) == s.scheduledTime >= subDays(today, 30)
    IN  CASE timeframe = "today" -> SelectSeq(scheds, sameDay)
          [] timeframe = "week" -> SelectSeq(scheds, lastWeek)
          [] timeframe = "month" -> SelectSeq(scheds, lastMonth)
          [] OTHER -> scheds

\* missedDoses of both dashboards, on the schedules that the dashboard has filtered
missedDoses(filteredSchedules, date) ==
    LET isMissed(s) == ~ s.taken /\ ~ s.skipped /\ s.scheduledTime < date
    IN  SelectSeq(filteredSchedules, isMissed)

\* a tab of the timeframe is clicked
SelectTimeframe(timeframe) ==
    /\ timeframe # selectedTimeframe
    /\ selectedTimeframe' = timeframe
    /\ uiOps' = uiOps + 1
    /\ UNCHANGED <<refillLogs, orderingMedicine, hardwareDispense>>
    /\ UNCHANGED cartVars
    /\ UNCHANGED notUiVars

----------------------------------------------------------------------------
\* The application: the hook, the dashboards, the cart and the hardware together

\* a click, a hook call or a poll may still be made
AppRoom == ops + uiOps + ticks < MaxAppOps

AppNext ==
    \/ LoadSampleData
    \/ AppRoom /\ RefillRoom /\ \E id \in ScheduleIds : MarkDoseTaken(id)
    \/ AppRoom /\ \E id \in ScheduleIds : MarkTakenLate(id)
    \/ AppRoom /\ \E id \in ScheduleIds, reason \in Reasons : SkipDose(id, reason)
    \/ AppRoom /\ \E id \in ScheduleIds : SnoozeDose(id)
    \/ RefillNext
    \/ /\ AppRoom /\ callsInFlight = << >>
       /\ \E k \in 1..Len(sampleSchedules) : HandleDispenseFromHardware(k)
    \/ resetTimers < MaxResetTimers /\ \E i \in 1..MaxCallsInFlight : RequestSettled(i, TRUE)
    \/ failures < MaxFailures /\ \E i \in 1..MaxCallsInFlight : RequestSettled(i, FALSE)
    \/ ResetTrigger(TRUE)
    \/ failures < MaxFailures /\ ResetTrigger(FALSE)
    \/ DispenseReturned
    \/ AppRoom /\ PollTick
    \/ \E p \in 1..MaxPolls, resp \in Responses, plan \in Plans : PollSettled(p, resp, plan)
    \/ ~ loading /\ CartEffect
    \/ \E i \in 1..MaxCartLoads : LoadSettled(i)
    \/ Mounted /\ Render
    \/ Mounted /\ AppRoom /\ Len(cartOrdersInFlight) < MaxCartOrders
         /\ cartTimers + Len(cartOrdersInFlight) < MaxCartTimers
         /\ PlaceOrder
    \/ \E i \in 1..MaxCartOrders : OrderSettled(i)
    \/ ResetTimerFired
    \/ AppRoom /\ \E m \in 1..Len(sampleMedicines) : HandleQuickRefill(m)
    \/ QuickRefillSettled
    \/ AppRoom /\ \E timeframe \in Timeframes : SelectTimeframe(timeframe)

----------------------------------------------------------------------------
\* Specifications: one part of the application runs, the others stay as constructed

Init ==
    /\ DoseInit
    /\ StockIdle
    /\ PollInit
    /\ ActivityInit
    /\ VoiceInit
    /\ UiInit

Spec == Init /\ [][DoseNext]_vars

SpecCompletions == Init /\ [][CompletionNext]_vars

\* the promises of the 1mg adapter settle: their timers are not starved
SpecRefillFair == Init /\ [][RefillFlowNext]_vars /\ WF_vars(RefillNext)

StockSpecInit ==
    /\ StockInit
    /\ DoseInit
    /\ PollInit
    /\ ActivityInit
    /\ VoiceInit
    /\ UiInit

SpecStock == StockSpecInit /\ [][StockNext]_vars

SpecPolling == Init /\ [][PollNext]_vars

SpecActivity == Init /\ [][ActivityNext]_vars

\* the timer that dispensePill sets fires: a timer of the event loop is not starved
SpecActivityFair ==
    Init /\ [][ActivityNext]_vars /\ WF_vars(\E ok \in BOOLEAN : ResetTrigger(ok))

SpecVoice == Init /\ [][VoiceNext]_vars

SpecCart == Init /\ [][CartNext]_vars

SpecApp == Init /\ [][AppNext]_vars

OrphanSpecInit ==
    /\ OrphanInit
    /\ StockIdle
    /\ PollInit
    /\ ActivityInit
    /\ VoiceInit
    /\ UiInit

SpecOrphan == OrphanSpecInit /\ [][OrphanNext]_vars

----------------------------------------------------------------------------
\* Dose lifecycle: the claims

IndexOfSchedule(id) == FindById(schedules, id)

IndexOfMedicine(id) == FindById(medicines, id)

\* every schedule but the one at index k is what it was
OtherSchedulesUnchanged(k) ==
    /\ Len(schedules') = Len(schedules)
    /\ \A j \in 1..Len(schedules) : j # k => schedules'[j] = schedules[j]

\* every medicine but the one at index m is what it was
OtherMedicinesUnchanged(m) ==
    /\ Len(medicines') = Len(medicines)
    /\ \A j \in 1..Len(medicines) : j # m => medicines'[j] = medicines[j]

\* C1: markDoseTaken(id) on an existing schedule whose status is pending sets its
\* status to taken, its taken flag to true and its takenAt to the time of the call,
\* and changes the remainingQuantity of its medicine to max(0, old - 1); every other
\* schedule and every other medicine is unchanged.
C1_MarkDoseTakenEffect ==
    [][\A id \in ScheduleIds :
        LET k == IndexOfSchedule(id)
        IN  (MarkDoseTaken(id) /\ k # 0 /\ schedules[k].status = "pending") =>
                LET m == IndexOfMedicine(schedules[k].medicineId)
                    old == medicines[m].remainingQuantity
                IN  /\ schedules'[k].status = "taken"
                    /\ schedules'[k].taken = TRUE
                    /\ schedules'[k].takenAt = now
                    /\ OtherSchedulesUnchanged(k)
                    /\ m # 0
                    /\ medicines'[m].remainingQuantity = (IF old - 1 > 0 THEN old - 1 ELSE 0)
                    /\ OtherMedicinesUnchanged(m)
      ]_vars

\* C1 witness: schedule "2" was pending while its medicine had run out (schedule "1"
\* was completed eight times), and has been marked taken: the stock stayed at 0
C1_Witness ==
    /\ IndexOfSchedule("2") # 0
    /\ schedules[IndexOfSchedule("2")].status = "taken"
    /\ schedules[IndexOfSchedule("2")].takenAt = now
    /\ medicines[IndexOfMedicine("1")].remainingQuantity = 0
    /\ ops = MaxCompletions

\* C4: snoozeDose(id) on an existing schedule sets its status to snoozed and its
\* snoozeUntil to the invocation time plus 30 minutes, and leaves every medicine, the
\* refill orders (placed or being placed) and all other schedules unchanged.
C4_SnoozeEffect ==
    [][\A id \in ScheduleIds :
        LET k == IndexOfSchedule(id)
        IN  SnoozeDose(id) =>
                /\ k # 0 => /\ schedules'[k].status = "snoozed"
                            /\ schedules'[k].snoozeUntil = now + 30
                /\ OtherSchedulesUnchanged(k)
                /\ medicines' = medicines
                /\ refillOrders' = refillOrders
                /\ refillsInFlight' = refillsInFlight
      ]_vars

\* C4 witness: a schedule snoozed at 08:55 until 09:25, the minutes carried into the hour
C4_Witness ==
    \E k \in 1..Len(schedules) :
        /\ schedules[k].status = "snoozed"
        /\ schedules[k].snoozeUntil = StartMinute + TickMinutes + 30
        /\ getMinutes(schedules[k].snoozeUntil) < 30

\* C5: skipDose(id, reason) on an existing schedule sets its status to missed and its
\* notes to the given reason, and has no stock side effect: no medicine changes and no
\* refill order is created or started.
C5_SkipEffect ==
    [][\A id \in ScheduleIds, reason \in Reasons :
        LET k == IndexOfSchedule(id)
        IN  SkipDose(id, reason) =>
                /\ k # 0 => /\ schedules'[k].status = "missed"
                            /\ schedules'[k].notes = reason
                /\ OtherSchedulesUnchanged(k)
                /\ medicines' = medicines
                /\ refillOrders' = refillOrders
                /\ refillsInFlight' = refillsInFlight
      ]_vars

\* C5 witness: a schedule skipped with a reason while its medicine is at critical level
C5_Witness ==
    \E k \in 1..Len(schedules) :
        /\ schedules[k].status = "missed"
        /\ schedules[k].skipped
        /\ schedules[k].notes = "felt sick"
        /\ checkStockLevel(medicines[IndexOfMedicine(schedules[k].medicineId)]) = "critical"
        /\ refillsInFlight = << >>
        /\ refillOrders = << >>

\* the schedules that markDoseTaken leaves, with the status of schedule id replaced
WithStatus(scheds, id, status) ==
    [i \in 1..Len(scheds) |->
        IF scheds[i].id = id THEN [scheds[i] EXCEPT !.status = status] ELSE scheds[i]]

\* C6: markTakenLate(id) does the same as markDoseTaken(id) from every state, except
\* that the resulting status is taken_late: the same taken flag and takenAt, the same
\* stock decrement, and the same auto-refill check is started.
C6_LateSameAsTaken ==
    \A id \in ScheduleIds :
        LET onTime == markDoseTaken(id, schedules, medicines)
            late == markTakenLate(id, schedules)
        IN  /\ late.schedules = WithStatus(onTime.schedules, id, "taken_late")
            /\ late.medicines = onTime.medicines
            /\ late.refillsInFlight = onTime.refillsInFlight

----------------------------------------------------------------------------
\* Stock classification: the claims

C3_DaysRemaining ==
    LET r == stockMedicine.remainingQuantity
        f == stockMedicine.frequency
    IN  daysRemaining # << >> =>
            /\ daysRemaining[1] \in Int
            /\ f > 0 => daysRemaining[1] = r \div f
            /\ f = 0 => daysRemaining[1] = 0
            /\ (r = 8 /\ f = 2) => daysRemaining[1] = 4
            /\ (r = 8 /\ f = 0) => daysRemaining[1] = 0

\* C3 witness: 8 remaining at 0 doses a day has 0 days remaining
C3_Witness ==
    /\ stockMedicine.remainingQuantity = 8
    /\ stockMedicine.frequency = 0
    /\ daysRemaining = <<0>>

----------------------------------------------------------------------------
\* BlynkService: the claims

IsSuffix(suffix, seq) ==
    /\ Len(suffix) <= Len(seq)
    /\ suffix = SubSeq(seq, Len(seq) - Len(suffix) + 1, Len(seq))

C8_NoCallAfterCancel == calledAfterCancel = {}

\* C9: the activity log holds at most 50 entries, newest first: it is the last
\* min(50, n) of the n entries added, so an insertion into a full log evicts the oldest
\* entry and keeps the other 49 in their order.
C9_ActivityLogBounded ==
    /\ Len(activities) <= 50
    /\ Len(activities) = Min(inserted, 50)
    /\ \A i \in 1..Len(activities) : activities[i].n = inserted - i + 1

\* C9 witness: the 51st entry has been added and the first one is gone
C9_Witness ==
    /\ inserted = 51
    /\ Len(activities) = 50
    /\ activities[1].n = 51
    /\ activities[50].n = 2

----------------------------------------------------------------------------
\* VoiceService: the claims

\* the names of the medicines whose schedules of today are pending, in schedule order
PendingNamesToday ==
    LET isPendingToday(s) ==
            s.status = "pending" /\ toDateString(s.scheduledTime) = toDateString(now)
        pending == SelectSeq(voiceSchedules, isPendingToday)
    IN  [i \in 1..Len(pending) |->
            voiceMedicines[FindById(voiceMedicines, pending[i].medicineId)].name]

\* C10: with the language English, processQuery("What medicines do I still need to
\* take?") has the intent next_dose in every schedule state, and its response lists
\* exactly the names of the medicines whose schedules of today are pending.
C10_StillNeedToTakeIsNextDose ==
    [][(ProcessQuery(EnQuery2) /\ currentLanguage = "en") =>
            /\ lastQuery'[1].intent = "next_dose"
            /\ lastQuery'[1].response =
                    IF PendingNamesToday = << >>
                    THEN <<"You have no pending medicines for today.">>
                    ELSE <<"Your next medicines to take are: ">>
                            \o join(PendingNamesToday, ", ")]_vars

\* C10 witness: the query has been made in English with two taken and one pending
\* schedule of today
C10_Witness ==
    /\ lastQuery # << >>
    /\ lastQuery[1].query = EnQuery2
    /\ lastQuery[1].language = "en"
    /\ lastQuery[1].timestamp = StartMinute
    /\ effects = 1
    /\ Cardinality({i \in 1..Len(voiceSchedules) : voiceSchedules[i].status = "taken"}) = 2
    /\ Cardinality({i \in 1..Len(voiceSchedules) : voiceSchedules[i].status = "pending"}) = 1

----------------------------------------------------------------------------
\* useMedicineData: the claims on sequences of calls

\* C20: once the status of a schedule has left pending it is never pending again,
\* whatever is called and however the clock advances; a snoozed schedule stays snoozed
\* when its snoozeUntil has passed.
C20_NeverPendingAgain ==
    [][\A k \in 1..Len(schedules) :
            schedules[k].status # "pending" =>
                /\ k <= Len(schedules')
                /\ schedules'[k].id = schedules[k].id
                /\ schedules'[k].status # "pending"
                /\ (schedules[k].status = "snoozed" /\ ops' = ops)
                        => schedules'[k].status = "snoozed"
      ]_vars

\* C20 witness: a schedule snoozed at 08:20 until 08:50 is still snoozed at 08:55
C20_Witness ==
    \E k \in 1..Len(schedules) :
        /\ schedules[k].status = "snoozed"
        /\ schedules[k].snoozeUntil = StartMinute + 30
        /\ now > schedules[k].snoozeUntil

----------------------------------------------------------------------------
\* VoiceService: the claims on the responses and on the rules

NoPendingToday ==
    \A i \in 1..Len(voiceSchedules) :
        ~ /\ voiceSchedules[i].status = "pending"
          /\ toDateString(voiceSchedules[i].scheduledTime) = toDateString(now)

\* the sentence of next_dose for no pending medicine, by language
NoPendingSentence(language) ==
    CASE language = "en" -> "You have no pending medicines for today."
      [] language = "hi" -> "(hi) You have no medicine left for today."
      [] language = "kn" -> "(kn) You have no medicine left for today."

\* C11: when no schedule of today is pending, the response to a query of intent
\* next_dose is the fixed no-pending sentence of the active language and nothing else,
\* whatever the statuses of today's schedules are.
C11_NoPendingSentence ==
    [][(asked' = asked + 1 /\ lastQuery'[1].intent = "next_dose" /\ NoPendingToday) =>
            lastQuery'[1].response = <<NoPendingSentence(currentLanguage)>>]_vars

\* C11 witness: today's schedules are taken, taken late, missed and snoozed, and a
\* next_dose query in Hindi got the Hindi sentence
C11_Witness ==
    /\ lastQuery # << >>
    /\ lastQuery[1].intent = "next_dose"
    /\ lastQuery[1].language = "hi"
    /\ lastQuery[1].timestamp = StartMinute
    /\ lastQuery[1].response = <<NoPendingSentence("hi")>>
    /\ now = StartMinute
    /\ Len(voiceSchedules) = 4
    /\ {voiceSchedules[i].status : i \in 1..Len(voiceSchedules)}
            = {"taken", "taken_late", "missed", "snoozed"}

\* the rules of identifyIntent in their order: a rule matches when all (next_dose of
\* English) or any (every other rule) of its substrings occur
IntentRules ==
    << [intent |-> "check_intake", all |-> FALSE, of |-> {EnDidITake, EnTaken, EnHaveITaken}],
       [intent |-> "next_dose", all |-> TRUE, of |-> {EnNext, EnMedicine}],
       [intent |-> "check_stock", all |-> FALSE, of |-> {EnStock, EnRunningLow, EnRefill}],
       [intent |-> "schedule_query", all |-> FALSE, of |-> {EnSchedule, EnWhen}],
       [intent |-> "check_intake", all |-> FALSE, of |-> {HiDavaLi, HiKhai}],
       [intent |-> "next_dose", all |-> FALSE, of |-> {HiAgliDava, HiKabLeni}],
       [intent |-> "check_stock", all |-> FALSE, of |-> {HiStock, HiKhatm}],
       [intent |-> "check_intake", all |-> FALSE, of |-> {KnAushadhiTegedukonde, KnSeviside}],
       [intent |-> "next_dose", all |-> FALSE, of |-> {KnMundinaAushadhi, KnYavaga}],
       [intent |-> "check_stock", all |-> FALSE, of |-> {KnStock, KnMugiyuttide}] >>

RuleMatches(rule, lowerQuery) ==
    IF rule.all THEN \A sub \in rule.of : includes(lowerQuery, sub)
    ELSE \E sub \in rule.of : includes(lowerQuery, sub)

\* the intent of the first rule that matches, general_query when none does
FirstMatch(lowerQuery) ==
    LET matching == {r \in 1..Len(IntentRules) : RuleMatches(IntentRules[r], lowerQuery)}
    IN  IF matching = {} THEN "general_query"
        ELSE IntentRules[CHOOSE r \in matching : \A q \in matching : r <= q].intent

\* what the rule list gives for each query, and whether no rule matches it
RuleListIntent == [query \in Queries |-> FirstMatch(toLowerCase(query))]

NoRuleMatches ==
    [query \in Queries |->
        \A r \in 1..Len(IntentRules) : ~RuleMatches(IntentRules[r], toLowerCase(query))]

\* C12: identifyIntent returns the intent of the first rule of the ordered list (the
\* English rules, then the Hindi, then the Kannada) whose substrings occur in the
\* lower-cased query, general_query iff no rule matches, whatever the language is.
C12_FirstMatchingRule ==
    [][asked' = asked + 1 =>
            /\ lastQuery'[1].intent = RuleListIntent[lastQuery'[1].query]
            /\ lastQuery'[1].language = currentLanguage
            /\ (lastQuery'[1].intent = "general_query") <=> NoRuleMatches[lastQuery'[1].query]
      ]_vars

\* C12 witness: with the language Kannada, an English query that the rules of
\* check_intake and of next_dose both match got the intent of the first
C12_Witness ==
    /\ lastQuery # << >>
    /\ lastQuery[1].language = "kn"
    /\ lastQuery[1].query = SpokenQuery2
    /\ RuleMatches(IntentRules[1], toLowerCase(SpokenQuery2))
    /\ RuleMatches(IntentRules[2], toLowerCase(SpokenQuery2))
    /\ lastQuery[1].intent = "check_intake"

----------------------------------------------------------------------------
\* BlynkService: the claims on failures

\* C13: when a channel request of a poll fails, its value is substituted and the
\* snapshot published for the poll has connected = false, as has isDeviceConnected()
\* afterwards; connected = true is published only when every request succeeded.
C13_FailureMeansDisconnected ==
    lastData # << >> =>
        /\ lastData[1].connected <=> (lastData[1].substituted = {})
        /\ isConnected = lastData[1].connected

\* C13 witness: the poll published last had a failed request
C13_Witness ==
    /\ lastData # << >>
    /\ lastData[1].substituted # {}
    /\ lastData[1].substituted # Channels

----------------------------------------------------------------------------
\* useMedicineData: the claims on the stock

\* C14: in every state reached from the sample data, every medicine has
\* 0 <= remainingQuantity <= totalQuantity.
C14_StockWithinRange ==
    \A m \in 1..Len(medicines) :
        /\ 0 <= medicines[m].remainingQuantity
        /\ medicines[m].remainingQuantity <= medicines[m].totalQuantity

\* C14 witness: the stock of Lisinopril (4 at the start) is used up by doses taken late
C14_Witness ==
    /\ medicines # << >>
    /\ medicines[IndexOfMedicine("2")].remainingQuantity = 0
    /\ schedules[IndexOfSchedule("3")].status = "taken_late"
    /\ medicines[IndexOfMedicine("1")].remainingQuantity = 8
    /\ ops > 4

----------------------------------------------------------------------------
\* useMedicineData: the claims on ids that match nothing

\* C15: markDoseTaken, markTakenLate, skipDose and snoozeDose called with an id that
\* matches no schedule leave schedules, medicines and refill orders (placed or being
\* placed) as they are; a completed dose whose medicineId matches no medicine changes
\* no medicine and starts no refill.
C15_MissingIdsAreNoOps ==
    [][\A id \in OrphanScheduleIds :
        LET k == IndexOfSchedule(id)
        IN  /\ ( /\ k = 0
                 /\ \/ MarkDoseTaken(id)
                    \/ MarkTakenLate(id)
                    \/ SnoozeDose(id)
                    \/ \E reason \in Reasons : SkipDose(id, reason) )
                => UNCHANGED <<schedules, medicines, refillOrders, refillsInFlight>>
            /\ ( /\ k # 0
                 /\ IndexOfMedicine(schedules[k].medicineId) = 0
                 /\ MarkDoseTaken(id) \/ MarkTakenLate(id) )
                => /\ UNCHANGED <<medicines, refillOrders, refillsInFlight>>
                   /\ schedules'[k].taken
      ]_vars

\* C15 witness: the schedule of no medicine has been marked taken, after a call with
\* the id of no schedule, and nothing else has changed
C15_Witness ==
    /\ Len(schedules) = 5
    /\ schedules[5].status = "taken"
    /\ schedules[5].takenAt = now
    /\ ops = 2
    /\ medicines = sampleMedicines
    /\ refillsInFlight = << >>
    /\ refillOrders = << >>
    /\ \A k \in 1..4 : schedules[k] = sampleSchedules[k]

----------------------------------------------------------------------------
\* BlynkService: the claim on what is logged

\* C16: every dispensePill call and every sendNotification call that returns, whether
\* its requests succeeded or failed, has added exactly one entry to the activity log,
\* whose success tells the outcome.
C16_OneEntryPerCall ==
    [][Len(callsInFlight') < Len(callsInFlight) =>
            /\ inserted' = inserted + 1
            /\ activities' # << >>
            /\ activities'[1].n = inserted'
            /\ activities'[1].success = (failures' = failures)
      ]_vars

\* C16 witness: a sendNotification call whose request failed has returned
C16_Witness ==
    /\ failures = 1
    /\ callsInFlight = << >>
    /\ resetTimers = 0
    /\ inserted = 0

\* C17: refillOrders is append-only: an order in the list is never removed and never
\* changes, and every order has the status confirmed it was created with.
C17_RefillOrdersAppendOnly ==
    [][/\ Len(refillOrders') >= Len(refillOrders)
       /\ \A i \in 1..Len(refillOrders) : refillOrders'[i] = refillOrders[i]
       /\ \A i \in 1..Len(refillOrders') : refillOrders'[i].status = "confirmed"
      ]_vars

\* C17 witness: a second order has been placed after the first, for another medicine
C17_Witness ==
    /\ Len(refillOrders) = 2
    /\ refillOrders[1].medicineId # refillOrders[2].medicineId

\* C18: for every schedule, taken is true iff the status is taken or taken_late, and
\* skipped is true iff the status is missed.
C18_FlagsMirrorStatus ==
    \A k \in 1..Len(schedules) :
        /\ schedules[k].taken <=> schedules[k].status \in {"taken", "taken_late"}
        /\ schedules[k].skipped <=> schedules[k].status = "missed"

\* the schedules of a medicine that have been completed
CompletedSchedulesOf(medicineId) ==
    {k \in 1..Len(schedules) :
        /\ schedules[k].medicineId = medicineId
        /\ schedules[k].status \in {"taken", "taken_late"}}

\* C19: the quantity of a medicine has dropped from that of the sample data by at most
\* the number of its schedules that have been completed.
C19_OneDecrementPerDose ==
    \A m \in 1..Len(medicines) :
        sampleMedicines[m].remainingQuantity - medicines[m].remainingQuantity
            <= Cardinality(CompletedSchedulesOf(medicines[m].id))

----------------------------------------------------------------------------
\* BlynkService: the claim on the order of the snapshots

\* C24: snapshots are published in the order in which their polls were started: the
\* snapshot of an older poll never replaces that of a newer one as lastData, and
\* lastData (what getCurrentData returns) is the snapshot published last.
C24_PublishedInTickOrder ==
    /\ \A i, j \in 1..Len(published) : i < j => published[i] < published[j]
    /\ published # << >> =>
            /\ lastData # << >>
            /\ lastData[1].poll = published[Len(published)]
            /\ \A i \in 1..Len(published) : published[i] <= lastData[1].poll

\* C24 witness: the second poll was started while the first was in flight, and both
\* have been published
C24_Witness ==
    /\ ticks = 2
    /\ pollsInFlight = {}
    /\ Len(published) = 2
    /\ \E i \in 1..Len(listeners) : Len(received[listeners[i]]) = 2

----------------------------------------------------------------------------
\* VoiceService: the claim on the all-taken sentence of check_intake

\* the sentence of check_intake for an empty list of pending medicines, by language
AllTakenSentence(language) ==
    CASE language = "en" -> " You have taken all your scheduled medicines for today."
      [] language = "hi" -> "(hi)  You have taken all of today's scheduled medicines."
      [] language = "kn" -> "(kn)  You have taken all of today's scheduled medicines."

AllTakenToday ==
    \A i \in 1..Len(voiceSchedules) :
        toDateString(voiceSchedules[i].scheduledTime) = toDateString(now)
            => voiceSchedules[i].status \in {"taken", "taken_late"}

\* C28: the response to a query of intent check_intake contains the sentence that all
\* scheduled medicines of today have been taken only when every schedule of today is
\* taken or taken_late.
C28_AllTakenOnlyWhenAllTaken ==
    [][(asked' = asked + 1 /\ lastQuery'[1].intent = "check_intake"
            /\ \E i \in 1..Len(lastQuery'[1].response) :
                    lastQuery'[1].response[i] = AllTakenSentence(currentLanguage))
        => AllTakenToday]_vars

\* C28 witness: a check_intake query was answered today with the sentence while a
\* schedule of today is missed
C28_Witness ==
    /\ lastQuery # << >>
    /\ lastQuery[1].intent = "check_intake"
    /\ lastQuery[1].timestamp = now
    /\ \E i \in 1..Len(lastQuery[1].response) :
            lastQuery[1].response[i] = AllTakenSentence(lastQuery[1].language)
    /\ \E i \in 1..Len(voiceSchedules) :
            /\ voiceSchedules[i].status = "missed"
            /\ toDateString(voiceSchedules[i].scheduledTime) = toDateString(now)

----------------------------------------------------------------------------
\* BlynkService: the claim on dispensePill

\* C29: dispensePill returns true exactly when its trigger request and its log request
\* have both returned; then it adds a dispense entry with success true to the log and
\* sets the reset timer, which fires later and whose failing request changes nothing
\* but the console; when either request fails it returns false, adds a dispense entry
\* with success false and sets no timer. It returns a boolean in every case.
C29_DispensePillOutcome ==
    /\ [][\A i \in 1..Len(callsInFlight) :
            (callsInFlight[i].call = "dispensePill"
                    /\ callsInFlight' = RemoveAt(callsInFlight, i)) =>
                LET c == callsInFlight[i]
                    bothSucceeded == c.stage = "log" /\ failures' = failures
                IN  /\ returned' = Returned(c, bothSucceeded)
                    /\ activities'[1] = Activity(inserted + 1, "dispense", c.arg, bothSucceeded)
                    /\ inserted' = inserted + 1
                    /\ resetTimers' = IF bothSucceeded THEN resetTimers + 1 ELSE resetTimers
         ]_vars
    /\ [][resetTimers' < resetTimers =>
            /\ resetTimers' = resetTimers - 1
            /\ UNCHANGED <<activities, inserted, callsInFlight, returned>>]_vars
    /\ (resetTimers > 0) ~> (resetTimers = 0)

\* C29 witness: one dispensePill call has returned true and its reset request has
\* failed, another has returned false after its log request failed
C29_Witness ==
    /\ Len(activities) >= 2
    /\ activities[1].type = "dispense" /\ ~ activities[1].success
    /\ activities[2].type = "dispense" /\ activities[2].success
    /\ returned = <<[call |-> "dispensePill", arg |-> "test-medicine", value |-> FALSE]>>
    /\ resetTimers = 0
    /\ callsInFlight = << >>

----------------------------------------------------------------------------
\* InventoryService: the claim on autoRefillIfNeeded

\* C30: autoRefillIfNeeded(medicine) returns an order only when the medicine is at
\* critical level, checkAvailability returned true and placeOrder returned; the order
\* then has the id of the medicine and its totalQuantity. For a medicine that is not
\* critical no adapter call is made. When the medicine is unavailable or placeOrder
\* rejects, null is returned: the call returns in every case.
C30_AutoRefillResult ==
    LET critical == checkStockLevel(stockMedicine) = "critical"
    IN  /\ ~ critical => stockRefill.adapterCalls = << >>
        /\ stockRefill.stage = "returned" <=> stockRefill.result # << >>
        /\ stockRefill.result # << >> =>
            /\ stockRefill.result[1] # Null =>
                /\ critical
                /\ stockRefill.settled = <<"available", "confirmed">>
                /\ stockRefill.result[1][1].medicineId = stockMedicine.id
                /\ stockRefill.result[1][1].quantity = stockMedicine.totalQuantity
            /\ stockRefill.result[1] = Null =>
                \/ ~ critical /\ stockRefill.settled = << >>
                \/ critical /\ stockRefill.settled = <<"unavailable">>
                \/ critical /\ stockRefill.settled = <<"available", "rejected">>

\* C30 witness: an order of 60 has been returned for medicine 2 with 5 left of a
\* threshold of 5
C30_Witness ==
    /\ stockMedicine.id = "2"
    /\ stockMedicine.remainingQuantity = 5
    /\ stockMedicine.criticalThreshold = 5
    /\ stockMedicine.totalQuantity = 60
    /\ stockRefill.adapterCalls = <<"checkAvailability", "placeOrder">>
    /\ stockRefill.result = << <<[medicineId |-> "2", quantity |-> 60, status |-> "confirmed"]>> >>

----------------------------------------------------------------------------
\* useMedicineData: the claim on the refill that markDoseTaken starts

MedicineIds == {sampleMedicines[i].id : i \in 1..Len(sampleMedicines)}

\* the orders in refillOrders for a medicine
OrdersFor(medicineId) ==
    Cardinality({j \in 1..Len(refillOrders) : refillOrders[j].medicineId = medicineId})

----------------------------------------------------------------------------
\* ShoppingCartDashboard: the claims

\* C25: in every state of the cart no two items have the same medicine id and every
\* item has a quantity of at least 1, whatever addToCart, updateQuantity, removeFromCart,
\* Clear Cart, placeOrder and the load of the critical medicines have done, and also
\* when an item is added before the cart that another update has made is rendered.
C25_CartItemsDistinctAndPositive ==
    /\ \A j, k \in 1..Len(cartItems) : cartItems[j].id = cartItems[k].id => j = k
    /\ \A k \in 1..Len(cartItems) : cartItems[k].quantity >= 1

\* C25 witness: Metformin, loaded for the critical medicine, is in the cart a second time
\* with the quantity 1 of addToCart
C25_Witness ==
    /\ Len(cartItems) = 3
    /\ cartItems[1] = [id |-> "1mg_001", quantity |-> 60, originalMedicine |-> <<"1">>]
    /\ cartItems[3] = [id |-> "1mg_001", quantity |-> 1, originalMedicine |-> << >>]
    /\ cartLoadsInFlight = << >>

\* C26: while a placeOrder of the cart is in flight orderStatus is processing, and the
\* reset timer of an order changes the status of no later order: when a timer fires no
\* order is in flight, and the status it resets is that of the order that set it.
C26_ProcessingWhileInFlight ==
    /\ Len(cartOrdersInFlight) > 0 => orderStatus = "processing"
    /\ orderStatus = "success" => cartTimers > 0

\* C26 witness: the timer of the first order has fired while the second order is in
\* flight
C26_Witness ==
    /\ Len(cartOrdersInFlight) = 1
    /\ cartTimers = 0
    /\ orderStatus = "idle"
    /\ uiOps >= 2

----------------------------------------------------------------------------
\* The application: the claims

\* a call of markDoseTaken or markTakenLate completes a dose of the medicine in this step
DoseCompletedOf(medicineId) ==
    /\ ops' = ops + 1
    /\ \E k \in 1..Len(schedules') :
            /\ schedules'[k].medicineId = medicineId
            /\ schedules'[k].status \in {"taken", "taken_late"}
            /\ schedules'[k].takenAt = now

\* C22: once the sample data is loaded, the medicines stay the same medicines, no
\* remainingQuantity ever increases, and a remainingQuantity changes only in a step in
\* which markDoseTaken or markTakenLate completes a dose of that medicine: skipDose,
\* snoozeDose, the refill orders, Quick Order, the orders of the cart, the polls and a
\* dispense request leave every remainingQuantity as it is.
C22_StockChangesOnlyByDoseCompletion ==
    [][~ loading =>
            /\ Len(medicines') = Len(medicines)
            /\ \A m \in 1..Len(medicines) :
                /\ medicines'[m].id = medicines[m].id
                /\ medicines'[m].remainingQuantity <= medicines[m].remainingQuantity
                /\ medicines'[m] # medicines[m] =>
                    /\ DoseCompletedOf(medicines[m].id)
                    /\ medicines'[m] = [medicines[m] EXCEPT
                            !.remainingQuantity = Max(0, medicines[m].remainingQuantity - 1)]
      ]_vars

\* C22 witness: a Quick Order has been logged and a dose of Metformin has been taken:
\* 7 are left, the stock of the other medicines is as loaded
C22_Witness ==
    /\ refillLogs = 1
    /\ orderingMedicine = << >>
    /\ Len(medicines) = 3
    /\ medicines[1].remainingQuantity = 7
    /\ medicines[2] = sampleMedicines[2]
    /\ medicines[3] = sampleMedicines[3]

\* C23: when dispensePill returns to handleDispenseFromHardware and the dose it was
\* requested for is no longer pending, because the user has skipped, snoozed or marked
\* it meanwhile, the schedules and the stock stay as they are.
C23_DispenseLeavesSettledDose ==
    [][(hardwareDispense # << >> /\ hardwareDispense' = << >>) =>
            LET d == hardwareDispense[1]
                isTarget(s) == s.medicineId = d.medicineId /\ s.status = "pending"
                found == SelectSeq(d.todaySchedules, isTarget)
                k == IF Len(found) = 0 THEN 0 ELSE FindById(schedules, found[1].id)
            IN  (k # 0 /\ schedules[k].status # "pending")
                    => /\ schedules' = schedules
                       /\ medicines' = medicines
      ]_vars

\* C23 witness: the dose of Lisinopril was skipped while its dispense was in flight;
\* the dispense has returned, the dose is taken and skipped, and 3 of 4 are left
C23_Witness ==
    /\ hardwareDispense = << >>
    /\ Len(activities) = 1 /\ activities[1].success
    /\ Len(schedules) = 4
    /\ schedules[3].status = "taken" /\ schedules[3].skipped
    /\ medicines[2].remainingQuantity = 3

\* C27: of the schedules of the selected timeframe, every schedule with the status
\* missed is among the missed doses that the caregiver dashboards count, and no schedule
\* with the status taken, taken_late or snoozed is.
C27_MissedCountMatchesStatus ==
    LET filteredSchedules == getFilteredSchedules(schedules, selectedTimeframe, now)
        counted == missedDoses(filteredSchedules, now)
        isCounted(s) == \E j \in 1..Len(counted) : counted[j].id = s.id
    IN  \A i \in 1..Len(filteredSchedules) :
            /\ filteredSchedules[i].status = "missed" => isCounted(filteredSchedules[i])
            /\ filteredSchedules[i].status \in {"taken", "taken_late", "snoozed"}
                    => ~ isCounted(filteredSchedules[i])

\* C27 witness: the dashboard shows the week, the dose of 09:00 has been skipped and
\* the missed doses are none
C27_Witness ==
    /\ selectedTimeframe = "week"
    /\ \E k \in 1..Len(schedules) : schedules[k].status = "missed" /\ schedules[k].skipped
    /\ missedDoses(getFilteredSchedules(schedules, selectedTimeframe, now), now) = << >>

====
